---- MODULE Spec2Model ----
(***************************************************************************)
(* Storage engine of the Pintos file system: the buffer cache              *)
(* (filesys/cache.c) and the free-space allocator (filesys/free-map.c).    *)
(*                                                                         *)
(* Granularity.  get_cache_entry runs from lock_acquire to lock_release,   *)
(* so it is one step.  The memcpy, the dirty flag and the timestamp of     *)
(* cache_read / cache_write run after the lock was released, so they are a *)
(* second step of the calling thread.  The background writer takes the     *)
(* lock, visits one slot per step (block_write blocks, other threads run   *)
(* their unlocked steps meanwhile) and releases the lock.                  *)
(***************************************************************************)
EXTENDS Integers, Sequences, FiniteSets, TLC

(* ------------------------------ bounds --------------------------------- *)
\* Slots of the cache (64 in cache.c) and bytes of a sector (512).
CACHE_NUM_SECTORS == 2
BLOCK_SECTOR_SIZE == 1
\* Sectors of the device the cache is asked for, values of a byte, the last
\* timer tick, and the threads calling cache_read / cache_write.
NumSectors == 3
MaxByte == 1
MaxTick == 1
NumThreads == 1
\* Bits of the free map (block_size (fs_device)) and the largest cnt passed to
\* free_map_allocate and free_map_release.
BitCnt == 6
MaxCnt == 3
\* The inode layer: direct pointers of an inode (12 in inode.c), sector numbers
\* in an index block (128), sectors of the file system device, calls of
\* filesys_create, openers of one inode, and the largest offset read at.
INODE_NUM_DBLOCKS == 2
INDBLOCK_NUM_CHILDREN == 2
DeviceSectors == 16
MaxFiles == 1
MaxOpen == 2
MaxReadOfs == 1
MaxWrites == 1
\* Threads inside free_map_allocate at the same time.
NumAllocators == 2
\* Threads that open and close inodes at the same time, and the struct inode
\* objects that malloc hands out.
NumOpeners == 2
MaxInodes == 3
\* Threads inside cache_read / cache_write at the same time, and the bytes of a
\* sector where memcpy is followed one byte at a time.
NumCopiers == 2
CopyBytes == 2
\* Threads started by cache_read_async that have not run yet.
MaxAhead == 1
\* Bytes per sector where a sector holds more than one byte of a file.
WideSectorSize == 2
\* inode_write_at calls in a run with such sectors.
MaxWideWrites == 2
\* Descriptors one process has open at a time.
MaxFds == 3

FREE_MAP_SECTOR == 0
ROOT_DIR_SECTOR == 1
INODE_MAGIC == 1229868868
\* sizeof (block_sector_t)
SECTOR_T_SIZE == 4

\* Values outside Slots and Bytes: no slot (a NULL pointer) or no byte written
\* yet, and a byte that two overlapping calls leave open.
None == 0 - 1
Either == 0 - 2

Slots == 0 .. (CACHE_NUM_SECTORS - 1)
Sectors == 0 .. (NumSectors - 1)
Bytes == 0 .. MaxByte
Offsets == 0 .. (BLOCK_SECTOR_SIZE - 1)
Threads == 1 .. NumThreads
Bits == 0 .. (BitCnt - 1)

VARIABLES
  cache,         \* struct cache_entry cache[CACHE_NUM_SECTORS]
  disk,          \* fs_device: content of every sector
  ticks,         \* timer_ticks ()
  cache_lock,    \* "free" or "writer" (get_cache_entry takes and drops it in one step)
  pc,            \* per thread: "idle", or "copy" between get_cache_entry and memcpy
  op,            \* per thread: the cache_read / cache_write call in progress
  wi,            \* background writer: -1 asleep, else the index i of its loop
  written,       \* history: per sector and byte, the byte last stored by cache_write
  coherent,      \* history: the last cache_read returned the bytes expected of it
  fresh,         \* history: sectors a cache_write stored into since the running flush pass began
  resolves,      \* history: number of get_cache_entry calls since cache_init (saturating)
  seen,          \* history: the sectors those calls asked for
  evictions,     \* history: number of evictions those calls made
  victim_ok,     \* history: the last eviction took the least recently used slot
  free_map,      \* struct bitmap *free_map
  free_map_file, \* "null" before free_map_create, "open", or "closed" by free_map_close
  file_bits,     \* the bitmap stored in the free map file
  panicked,      \* an ASSERT failed: the kernel has halted
  fm_last,       \* history: the last allocator call, its arguments, result and the bitmap before
  held,          \* history: sectors returned by free_map_allocate and not released since
  sect,          \* what cache_read returns for every sector of the file system device
  open_inodes,   \* static struct list open_inodes, the front first
  hist,          \* history: per inode sector, the file made there and the sectors it obtained
  ilast,         \* history: the last call into the inode layer, its arguments and results
  trail,         \* history: how far a create, open, read / write / remove, close sequence got
  creates,       \* history: number of filesys_create calls
  writes,        \* history: number of inode_write_at calls
  overrun,       \* a store ran past the end of a cache slot: kernel memory is corrupted
  junk,          \* the word that never-written sectors and uninitialised memory hold
  fma,           \* per thread inside free_map_allocate: where it is, cnt, i, sectorp, result
  opener,        \* per thread using inodes: where it is in inode_open, the pointers it holds
  mallocs,       \* number of struct inode objects malloc has handed out
  frees,         \* history: per struct inode, how often it was passed to free
  copier,        \* per thread inside cache_read / cache_write: the slot, the bytes moved so far
  rlast,         \* history: what the last cache_read returned, what it could rightly return
  readahead,     \* the sectors of the cache_read_thread threads created and not yet run
  glast,         \* history: the last step, and what get_cache_entry met in it
  pass_writes,   \* history: block_write calls of write_cache_to_disk since its lock_acquire
  denying,       \* history: per inode sector, the openers that denied writes and have not allowed them
  fd_map,        \* process->fd_map: the fd of every struct file_descriptor, in list order
  fd_last        \* history: the last create_fd or close, its result, the fds open before it

cvars == <<cache, disk, ticks, cache_lock, pc, op, wi, written, coherent, fresh,
           resolves, seen, evictions, victim_ok>>
fvars == <<free_map, free_map_file, file_bits, panicked, fm_last, held>>
ivars == <<sect, open_inodes, hist, ilast, trail, creates, writes, overrun, junk>>
vars == <<cache, disk, ticks, cache_lock, pc, op, wi, written, coherent, fresh,
          resolves, seen, evictions, victim_ok,
          free_map, free_map_file, file_bits, panicked, fm_last, held,
          sect, open_inodes, hist, ilast, trail, creates, writes, overrun, junk,
          fma, opener, mallocs, frees, copier, rlast, readahead, glast, pass_writes,
          denying, fd_map, fd_last>>
\* The variables that only the specifications of interleaved threads change.
avars == <<readahead, glast, pass_writes>>
yvars == <<fd_map, fd_last>>
xvars == <<denying, yvars>>
nvars == <<fma, opener, mallocs, frees, copier, rlast, readahead, glast, pass_writes,
           denying, fd_map, fd_last>>

(* ------------------------------ cache.c -------------------------------- *)

\* A sector of zero bytes: static storage is zero-initialised.
ZeroSector == [b \in Offsets |-> 0]

\* cache[] is a global array: sector 0, dirty false, tick 0, data zero; cache_init
\* sets only the free flag.
cache_init ==
  [i \in Slots |-> [sector |-> 0, free |-> TRUE, dirty |-> FALSE,
                    last_accessed_tick |-> 0, data |-> ZeroSector]]

\* ScanCache with the loop started at slot 1: slot 0 is never matched.
RECURSIVE ScanCacheFromOne(_, _, _, _)
ScanCacheFromOne(c, sector, i, free_cache_entry) ==
  IF i = CACHE_NUM_SECTORS
    THEN [hit |-> None, free_cache_entry |-> free_cache_entry]
    ELSE IF i > 0 /\ c[i].sector = sector
      THEN [hit |-> i, free_cache_entry |-> free_cache_entry]
      ELSE ScanCacheFromOne(c, sector, i + 1,
                            IF free_cache_entry = None /\ c[i].free THEN i
                            ELSE free_cache_entry)

\* The scan of get_cache_entry: the first slot whose sector field equals SECTOR
\* is returned as `hit' (the free flag is not looked at); otherwise the first
\* free slot is remembered.
RECURSIVE ScanCache(_, _, _, _)
ScanCache(c, sector, i, free_cache_entry) ==
  IF i = CACHE_NUM_SECTORS
    THEN [hit |-> None, free_cache_entry |-> free_cache_entry]
    ELSE IF c[i].sector = sector
      THEN [hit |-> i, free_cache_entry |-> free_cache_entry]
      ELSE ScanCache(c, sector, i + 1,
                     IF free_cache_entry = None /\ c[i].free THEN i
                     ELSE free_cache_entry)

\* get_cache_entry_to_evict: the loop from slot 1 with a strict comparison.
RECURSIVE EvictScan(_, _, _)
EvictScan(c, i, best) ==
  IF i >= CACHE_NUM_SECTORS THEN best
  ELSE EvictScan(c, i + 1,
                 IF c[i].last_accessed_tick < c[best].last_accessed_tick
                   THEN i ELSE best)

get_cache_entry_to_evict(c) == EvictScan(c, 1, 0)

\* read_cache_entry_from_disk
read_cache_entry_from_disk(c, d, i) ==
  [c EXCEPT ![i].data = d[c[i].sector], ![i].dirty = FALSE]

\* write_cache_entry_to_disk without its block_write.
write_disk_never(c, d, i) == d

\* write_cache_entry_to_disk: the device after the call, and the cache after it.
write_disk(c, d, i) ==
  IF c[i].dirty THEN [d EXCEPT ![c[i].sector] = c[i].data] ELSE d

write_cache_entry_to_disk(c, i) ==
  IF c[i].dirty THEN [c EXCEPT ![i].dirty = FALSE] ELSE c

\* get_cache_entry: the cache and the device after the call, the slot returned
\* and the path taken.
get_cache_entry(c, d, sector) ==
  LET s == ScanCache(c, sector, 0, None) IN
  IF s.hit # None
    THEN [cache |-> c, disk |-> d, entry |-> s.hit, how |-> "hit"]
  ELSE IF s.free_cache_entry # None
    THEN LET f == s.free_cache_entry
             c1 == [c EXCEPT ![f].sector = sector, ![f].free = FALSE]
         IN [cache |-> read_cache_entry_from_disk(c1, d, f), disk |-> d,
             entry |-> f, how |-> "bind"]
  ELSE LET e == get_cache_entry_to_evict(c)
           d1 == write_disk(c, d, e)
           c1 == write_cache_entry_to_disk(c, e)
           c2 == [c1 EXCEPT ![e].sector = sector]
       IN [cache |-> read_cache_entry_from_disk(c2, d1, e), disk |-> d1,
           entry |-> e, how |-> "evict"]

\* memcpy (buffer, cache_entry->data + sector_ofs, size)
memcpy_out(data, sector_ofs, size) ==
  [k \in 0 .. (size - 1) |-> data[sector_ofs + k]]

\* memcpy (cache_entry->data + sector_ofs, buffer, size)
memcpy_in(data, buffer, sector_ofs, size) ==
  [b \in Offsets |->
     IF b >= sector_ofs /\ b < sector_ofs + size THEN buffer[b - sector_ofs]
     ELSE data[b]]

NoOp == [kind |-> "none", sector |-> 0, sector_ofs |-> 0, size |-> 0,
         buffer |-> <<>>, entry |-> None, expect |-> <<>>]

\* The slot with the smallest timestamp, the lowest index among equals.
IsLeastRecent(c, e) ==
  \A j \in Slots :
    \/ c[e].last_accessed_tick < c[j].last_accessed_tick
    \/ (c[e].last_accessed_tick = c[j].last_accessed_tick /\ e <= j)

\* History of the calls of get_cache_entry; it stops counting once more than
\* CACHE_NUM_SECTORS + 1 calls were made.
Resolved(sector, r) ==
  IF resolves >= CACHE_NUM_SECTORS + 1
    THEN /\ resolves' = CACHE_NUM_SECTORS + 2
         /\ seen' = {}
         /\ evictions' = 0
    ELSE /\ resolves' = resolves + 1
         /\ seen' = seen \cup {sector}
         /\ evictions' = evictions + (IF r.how = "evict" THEN 1 ELSE 0)

VictimChecked(r) ==
  victim_ok' = IF r.how = "evict" THEN IsLeastRecent(cache, r.entry) ELSE victim_ok

\* cache_read up to the return of get_cache_entry.
CacheReadBegin(t, sector, sector_ofs, size) ==
  /\ pc[t] = "idle"
  /\ cache_lock = "free"
  /\ sector_ofs + size <= BLOCK_SECTOR_SIZE
  /\ LET r == get_cache_entry(cache, disk, sector) IN
       /\ cache' = r.cache
       /\ disk' = r.disk
       /\ op' = [op EXCEPT ![t] =
                   [kind |-> "read", sector |-> sector, sector_ofs |-> sector_ofs,
                    size |-> size, buffer |-> <<>>, entry |-> r.entry,
                    expect |-> [k \in 0 .. (size - 1) |-> written[sector][sector_ofs + k]]]]
       /\ Resolved(sector, r)
       /\ VictimChecked(r)
  /\ pc' = [pc EXCEPT ![t] = "copy"]
  /\ UNCHANGED <<ticks, cache_lock, wi, written, coherent, fresh>>
  /\ UNCHANGED <<fvars, ivars>>

\* The bytes a read returns are the bytes last written, where any were and no
\* write overlapped the read.
Expected(o, buffer) ==
  \A k \in 0 .. (o.size - 1) : o.expect[k] \in {None, Either, buffer[k]}

\* cache_read from the memcpy to the return; the caller's buffer is not kept.
CacheReadCopy(t) ==
  /\ pc[t] = "copy"
  /\ op[t].kind = "read"
  /\ LET e == op[t].entry IN
       /\ coherent' = Expected(op[t], memcpy_out(cache[e].data, op[t].sector_ofs, op[t].size))
       /\ op' = [op EXCEPT ![t] = NoOp]
       /\ cache' = [cache EXCEPT ![e].last_accessed_tick = ticks]
  /\ pc' = [pc EXCEPT ![t] = "idle"]
  /\ UNCHANGED <<disk, ticks, cache_lock, wi, written, fresh, resolves, seen,
                 evictions, victim_ok>>
  /\ UNCHANGED <<fvars, ivars>>

\* cache_write up to the return of get_cache_entry.
CacheWriteBegin(t, sector, sector_ofs, size, buffer) ==
  /\ pc[t] = "idle"
  /\ cache_lock = "free"
  /\ sector_ofs + size <= BLOCK_SECTOR_SIZE
  /\ LET r == get_cache_entry(cache, disk, sector) IN
       /\ cache' = r.cache
       /\ disk' = r.disk
       /\ op' = [op EXCEPT ![t] =
                   [kind |-> "write", sector |-> sector, sector_ofs |-> sector_ofs,
                    size |-> size, buffer |-> buffer, entry |-> r.entry,
                    expect |-> <<>>]]
       /\ Resolved(sector, r)
       /\ VictimChecked(r)
  /\ pc' = [pc EXCEPT ![t] = "copy"]
  /\ UNCHANGED <<ticks, cache_lock, wi, written, coherent, fresh>>
  /\ UNCHANGED <<fvars, ivars>>

\* A read of bytes that a write has just replaced may return the old or the new
\* bytes: it is no longer a read issued after the last write.
Overlapped(o, sector, sector_ofs, size) ==
  IF o.kind = "read" /\ o.sector = sector
    THEN [o EXCEPT !.expect =
            [k \in 0 .. (o.size - 1) |->
               IF o.sector_ofs + k >= sector_ofs /\ o.sector_ofs + k < sector_ofs + size
                 THEN Either ELSE o.expect[k]]]
    ELSE o

\* cache_write from the memcpy to the return.
CacheWriteCopy(t) ==
  /\ pc[t] = "copy"
  /\ op[t].kind = "write"
  /\ LET e == op[t].entry
         o == op[t]
     IN
       /\ cache' = [cache EXCEPT
                      ![e].data = memcpy_in(cache[e].data, o.buffer, o.sector_ofs, o.size),
                      ![e].dirty = TRUE,
                      ![e].last_accessed_tick = ticks]
       /\ written' = [written EXCEPT ![o.sector] =
                        memcpy_in(written[o.sector], o.buffer, o.sector_ofs, o.size)]
       /\ op' = [u \in Threads |->
                   IF u = t THEN NoOp
                   ELSE Overlapped(op[u], o.sector, o.sector_ofs, o.size)]
  /\ fresh' = IF wi >= 0 THEN fresh \cup {op[t].sector} ELSE fresh
  /\ pc' = [pc EXCEPT ![t] = "idle"]
  /\ UNCHANGED <<disk, ticks, cache_lock, wi, coherent, resolves, seen,
                 evictions, victim_ok>>
  /\ UNCHANGED <<fvars, ivars>>

\* cache_read_thread, the thread cache_read_async (sector) starts.  The caller of
\* cache_read_async touches no cache state, so the thread may appear at any time.
CacheReadThread(sector) ==
  /\ cache_lock = "free"
  /\ LET r == get_cache_entry(cache, disk, sector) IN
       /\ cache' = r.cache
       /\ disk' = r.disk
       /\ Resolved(sector, r)
       /\ VictimChecked(r)
  /\ UNCHANGED <<ticks, cache_lock, pc, op, wi, written, coherent, fresh>>
  /\ UNCHANGED <<fvars, ivars>>

\* write_cache_to_disk: lock_acquire at the top of the loop body.
WriterAcquire ==
  /\ wi = -1
  /\ cache_lock = "free"
  /\ cache_lock' = "writer"
  /\ wi' = 0
  /\ fresh' = {}
  /\ UNCHANGED <<cache, disk, ticks, pc, op, written, coherent, resolves, seen,
                 evictions, victim_ok>>
  /\ UNCHANGED <<fvars, ivars>>

\* write_cache_to_disk: one iteration of the for loop.
WriterStep ==
  /\ wi >= 0
  /\ wi < CACHE_NUM_SECTORS
  /\ IF ~cache[wi].free
       THEN /\ disk' = write_disk(cache, disk, wi)
            /\ cache' = write_cache_entry_to_disk(cache, wi)
       ELSE UNCHANGED <<cache, disk>>
  /\ wi' = wi + 1
  /\ UNCHANGED <<ticks, cache_lock, pc, op, written, coherent, fresh, resolves, seen,
                 evictions, victim_ok>>
  /\ UNCHANGED <<fvars, ivars>>

\* write_cache_to_disk: lock_release and timer_sleep.
WriterRelease ==
  /\ wi = CACHE_NUM_SECTORS
  /\ cache_lock' = "free"
  /\ wi' = -1
  /\ fresh' = {}
  /\ UNCHANGED <<cache, disk, ticks, pc, op, written, coherent, resolves, seen,
                 evictions, victim_ok>>
  /\ UNCHANGED <<fvars, ivars>>

\* The timer interrupt.
Tick ==
  /\ ticks < MaxTick
  /\ ticks' = ticks + 1
  /\ UNCHANGED <<cache, disk, cache_lock, pc, op, wi, written, coherent, fresh,
                 resolves, seen, evictions, victim_ok>>
  /\ UNCHANGED <<fvars, ivars>>

(* ----------------------------- free-map.c ------------------------------ *)

\* free_map_init: every bit clear but the two reserved sectors.
free_map_init ==
  [i \in Bits |-> i = FREE_MAP_SECTOR \/ i = ROOT_DIR_SECTOR]

\* The marking loop of free_map_allocate from bit i on: the bitmap after it, the
\* sectors stored into sectorp, and whether cnt of them were found.
RECURSIVE AllocateScan(_, _, _, _)
AllocateScan(map, cnt, i, sectorp) ==
  IF i \notin DOMAIN map
    THEN [found |-> FALSE, map |-> map, sectorp |-> sectorp]
    ELSE LET take == ~map[i]
             map1 == IF take THEN [map EXCEPT ![i] = TRUE] ELSE map
             sectorp1 == IF take THEN Append(sectorp, i) ELSE sectorp
         IN IF Len(sectorp1) = cnt
              THEN [found |-> TRUE, map |-> map1, sectorp |-> sectorp1]
              ELSE AllocateScan(map1, cnt, i + 1, sectorp1)

\* The loop that runs on failure: bitmap_reset (free_map, i) for i < allocated.
AllocateUndo(map, allocated) ==
  [i \in DOMAIN map |-> IF i < allocated THEN FALSE ELSE map[i]]

\* free_map_allocate.  file_open is free_map_file != NULL and write_ok the result
\* of bitmap_write.  Result: the value returned, the bitmap, the sectors stored
\* and whether the bitmap was written to the file.
FreeMapAllocate(map, cnt, file_open, write_ok) ==
  IF cnt = 0
    THEN [ok |-> TRUE, map |-> map, sectorp |-> <<>>, wrote |-> FALSE]
    ELSE LET r == AllocateScan(map, cnt, 0, <<>>) IN
         IF r.found /\ (~file_open \/ write_ok)
           THEN [ok |-> TRUE, map |-> r.map, sectorp |-> r.sectorp,
                 wrote |-> file_open]
           ELSE [ok |-> FALSE, map |-> AllocateUndo(r.map, Len(r.sectorp)),
                 sectorp |-> <<>>, wrote |-> FALSE]

\* ASSERT (bitmap_all (free_map, sector, cnt))
ReleaseAssert(map, sector, cnt) ==
  \A i \in sector .. (sector + cnt - 1) : map[i]

\* ReleaseBits with the range one bit too long.
ReleaseBitsOneMore(map, sector, cnt) ==
  [i \in DOMAIN map |-> IF i >= sector /\ i <= sector + cnt THEN FALSE ELSE map[i]]

\* bitmap_set_multiple (free_map, sector, cnt, false)
ReleaseBits(map, sector, cnt) ==
  [i \in DOMAIN map |-> IF i >= sector /\ i < sector + cnt THEN FALSE ELSE map[i]]

Range(seq) == {seq[k] : k \in 1 .. Len(seq)}

NoCall == [call |-> "none", sector |-> 0, cnt |-> 0, ok |-> TRUE,
           sectorp |-> <<>>, before |-> free_map_init, reused |-> {}]

\* free_map_create, called by do_format: inode_create allocates the sector that
\* holds the bitmap file's data while free_map_file is still NULL, then the
\* file is opened and the bitmap written to it.
FreeMapCreate ==
  /\ ~panicked
  /\ free_map_file = "null"
  /\ LET r == FreeMapAllocate(free_map, 1, FALSE, TRUE) IN
       /\ r.ok
       /\ free_map' = r.map
       /\ file_bits' = r.map
       /\ held' = held \cup Range(r.sectorp)
  /\ free_map_file' = "open"
  /\ UNCHANGED <<panicked, fm_last>>
  /\ UNCHANGED <<cvars, ivars>>

\* free_map_close: file_close (free_map_file); the pointer is not reset.
FreeMapClose ==
  /\ ~panicked
  /\ free_map_file = "open"
  /\ free_map_file' = "closed"
  /\ UNCHANGED <<free_map, file_bits, panicked, fm_last, held>>
  /\ UNCHANGED <<cvars, ivars>>

\* free_map_open: the file is opened again and bitmap_read loads the bitmap.
FreeMapOpen ==
  /\ ~panicked
  /\ free_map_file = "closed"
  /\ free_map_file' = "open"
  /\ free_map' = file_bits
  /\ UNCHANGED <<file_bits, panicked, fm_last, held>>
  /\ UNCHANGED <<cvars, ivars>>

\* free_map_allocate (cnt, sectorp), called once the file system is mounted.
free_map_allocate(cnt, write_ok) ==
  /\ ~panicked
  /\ free_map_file = "open"
  /\ LET r == FreeMapAllocate(free_map, cnt, TRUE, write_ok) IN
       /\ free_map' = r.map
       /\ file_bits' = IF r.wrote THEN r.map ELSE file_bits
       /\ held' = IF r.ok THEN held \cup Range(r.sectorp) ELSE held
       /\ fm_last' = [call |-> "allocate", sector |-> 0, cnt |-> cnt, ok |-> r.ok,
                      sectorp |-> r.sectorp, before |-> free_map,
                      reused |-> Range(r.sectorp) \cap held]
  /\ UNCHANGED <<free_map_file, panicked>>
  /\ UNCHANGED <<cvars, ivars>>

\* free_map_release (sector, cnt), called once the file system is mounted, on a
\* range inside the bitmap.  Nobody releases the two reserved sectors: the free
\* map file and the root directory are never removed.
free_map_release(sector, cnt) ==
  /\ ~panicked
  /\ free_map_file = "open"
  /\ sector > ROOT_DIR_SECTOR
  /\ sector + cnt <= BitCnt
  /\ IF ReleaseAssert(free_map, sector, cnt)
       THEN /\ free_map' = ReleaseBits(free_map, sector, cnt)
            /\ file_bits' = free_map'
            /\ held' = held \ (sector .. (sector + cnt - 1))
            /\ UNCHANGED panicked
       ELSE /\ panicked' = TRUE
            /\ UNCHANGED <<free_map, file_bits, held>>
  /\ fm_last' = [call |-> "release", sector |-> sector, cnt |-> cnt,
                 ok |-> ReleaseAssert(free_map, sector, cnt),
                 sectorp |-> <<>>, before |-> free_map, reused |-> {}]
  /\ UNCHANGED free_map_file
  /\ UNCHANGED <<cvars, ivars>>

(* ------------------------------ inode.c -------------------------------- *)
\* A sector is an array of cells.  A data sector keeps one byte per cell in its
\* first BLOCK_SECTOR_SIZE cells, an index block one sector number per cell in
\* its first INDBLOCK_NUM_CHILDREN cells, and an inode record one field per
\* cell in the order of struct inode_disk.  What the cache returns for a sector
\* is what was last stored into it (the cache itself is checked under Spec).

Dev == 0 .. (DeviceSectors - 1)

DOUBLY_INDBLOCK_NUM_GRANDCHILDREN == INDBLOCK_NUM_CHILDREN * INDBLOCK_NUM_CHILDREN
DBLOCK_END_BOUND == INODE_NUM_DBLOCKS
INDBLOCK_END_BOUND == DBLOCK_END_BOUND + INDBLOCK_NUM_CHILDREN + 1

\* The largest length the pointer structure can address, in bytes.
MaxLen ==
  (INODE_NUM_DBLOCKS + INDBLOCK_NUM_CHILDREN + DOUBLY_INDBLOCK_NUM_GRANDCHILDREN)
    * BLOCK_SECTOR_SIZE

Max(a, b) == IF a > b THEN a ELSE b
Min(a, b) == IF a < b THEN a ELSE b

CellCnt == Max(INODE_NUM_DBLOCKS + 5, Max(BLOCK_SECTOR_SIZE, INDBLOCK_NUM_CHILDREN))
Cells == 0 .. (CellCnt - 1)

\* A word that is no sector of the device and no length a file can have: what
\* a sector never written, or memory past the end of an array, may hold.
Wild == MaxLen + DeviceSectors + 1

DivRoundUp(x, y) == (x + y - 1) \div y

bytes_to_data_sectors(size) == DivRoundUp(size, BLOCK_SECTOR_SIZE)

\* bytes_to_indirect_sectors that counts no index block at all.
bytes_to_indirect_sectors_none(size) == 0 * size

bytes_to_indirect_sectors(size) ==
  LET data_sectors_left == bytes_to_data_sectors(size) IN
  IF data_sectors_left <= INODE_NUM_DBLOCKS
    THEN 0
    ELSE IF data_sectors_left - INODE_NUM_DBLOCKS <= INDBLOCK_NUM_CHILDREN
      THEN 1
      ELSE 2 + DivRoundUp(data_sectors_left - INODE_NUM_DBLOCKS - INDBLOCK_NUM_CHILDREN,
                          INDBLOCK_NUM_CHILDREN)

bytes_to_sectors(size) == bytes_to_data_sectors(size) + bytes_to_indirect_sectors(size)

\* struct inode_disk after calloc.
ZeroInode ==
  [length |-> 0, is_dir |-> 0, dblocks |-> [i \in 0 .. (INODE_NUM_DBLOCKS - 1) |-> 0],
   indblock |-> 0, doubly_indblock |-> 0, magic |-> 0]

\* The sector image of a struct inode_disk (cache_write (sector, inode_disk)):
\* length, is_dir, dblocks[], indblock, doubly_indblock, magic, unused[].
inode_disk_image(ino) ==
  [c \in Cells |->
     IF c = 0 THEN ino.length
     ELSE IF c = 1 THEN ino.is_dir
     ELSE IF c < INODE_NUM_DBLOCKS + 2 THEN ino.dblocks[c - 2]
     ELSE IF c = INODE_NUM_DBLOCKS + 2 THEN ino.indblock
     ELSE IF c = INODE_NUM_DBLOCKS + 3 THEN ino.doubly_indblock
     ELSE IF c = INODE_NUM_DBLOCKS + 4 THEN ino.magic
     ELSE 0]

\* inode_get_data: cache_read (inode->sector, inode_disk) into a struct inode_disk.
inode_get_data(st, sector) ==
  [length |-> st[sector][0], is_dir |-> st[sector][1],
   dblocks |-> [i \in 0 .. (INODE_NUM_DBLOCKS - 1) |-> st[sector][i + 2]],
   indblock |-> st[sector][INODE_NUM_DBLOCKS + 2],
   doubly_indblock |-> st[sector][INODE_NUM_DBLOCKS + 3],
   magic |-> st[sector][INODE_NUM_DBLOCKS + 4]]

\* inode_length: the length field of the record in the inode's sector.
inode_length(st, sector) == inode_get_data(st, sector).length

\* cache_write (sector, zeros) for every sector of a set.
ZeroFill(st, sectors) ==
  [s \in Dev |-> IF s \in sectors THEN [c \in Cells |-> 0] ELSE st[s]]

\* cache_write_partial (sector, vals, ofs * sizeof (block_sector_t), ...): the
\* cells from ofs on; what does not fit into the index block is not stored in
\* the sector (it lands behind the slot's data array).
StoreIndex(st, sector, ofs, vals) ==
  [st EXCEPT ![sector] =
     [c \in Cells |->
        IF c >= ofs /\ c < ofs + Len(vals) /\ c < INDBLOCK_NUM_CHILDREN
          THEN vals[c - ofs + 1] ELSE @[c]]]

\* A sector number shifted left by one to three bytes, a word whose low bytes
\* are kept while a sector number is stored over its high bytes, and a word
\* whose low bytes are overwritten by the zero high bytes of a sector number.
Shifted(v) == IF v = 0 THEN 0 ELSE Wild
KeepLow(old, v) == IF v = 0 /\ old # Wild THEN old ELSE Wild
ClearLow(old) == IF old = Wild THEN Wild ELSE 0

\* cache_write_partial (sector, vals, byte_ofs, Len (vals) * sizeof
\* (block_sector_t)) with the offset in bytes: a store that is not aligned to
\* the cells when byte_ofs is no multiple of sizeof (block_sector_t).
StoreAtByte(st, sector, byte_ofs, vals) ==
  LET base == byte_ofs \div SECTOR_T_SIZE
      n == Len(vals)
  IN IF byte_ofs % SECTOR_T_SIZE = 0
       THEN StoreIndex(st, sector, base, vals)
       ELSE [st EXCEPT ![sector] =
               [c \in Cells |->
                  IF c >= INDBLOCK_NUM_CHILDREN \/ c < base \/ c > base + n THEN @[c]
                  ELSE IF n = 0 THEN @[c]
                  ELSE IF c = base THEN KeepLow(@[c], vals[1])
                  ELSE IF c = base + n THEN ClearLow(@[c])
                  ELSE Shifted(vals[c - base + 1])]]

\* sectors[k] with the array's base at index 1; past the end of the malloc'ed
\* array the value is whatever the heap holds.
SectorAt(sectors, k, garbage) ==
  IF k \in 1 .. Len(sectors) THEN sectors[k] ELSE garbage

\* inode_disk_extend_dblock.  m carries what the caller's pointers refer to:
\* the sectors array, the positions p (*sectors) and q (*indirect_sectors) in
\* it, sector_ofs, total (data_sectors_to_write), the record and the device.
inode_disk_extend_dblock(m) ==
  IF m.sector_ofs >= INODE_NUM_DBLOCKS
    THEN [m EXCEPT !.sector_ofs = @ - INODE_NUM_DBLOCKS]
    ELSE LET sectors_to_write == Min(m.total, INODE_NUM_DBLOCKS - m.sector_ofs)
             new == SubSeq(m.sectors, m.p, m.p + sectors_to_write - 1)
         IN [m EXCEPT
               !.st = ZeroFill(@, Range(new)),
               !.ino.dblocks =
                 [i \in 0 .. (INODE_NUM_DBLOCKS - 1) |->
                    IF i >= m.sector_ofs /\ i < m.sector_ofs + sectors_to_write
                      THEN new[i - m.sector_ofs + 1] ELSE @[i]],
               !.p = @ + sectors_to_write,
               !.sector_ofs = 0,
               !.total = @ - sectors_to_write]

\* inode_disk_extend_indblock_children: the count is capped at
\* INDBLOCK_NUM_CHILDREN, not at the room left behind sector_ofs.
inode_disk_extend_indblock_children(m, indblock) ==
  IF m.halt = "panic"
    THEN m
    ELSE IF m.sector_ofs >= INDBLOCK_NUM_CHILDREN
      THEN [m EXCEPT !.sector_ofs = @ - INDBLOCK_NUM_CHILDREN]
      ELSE LET sectors_to_write == Min(m.total, INDBLOCK_NUM_CHILDREN)
               new == SubSeq(m.sectors, m.p, m.p + sectors_to_write - 1)
           IN IF indblock \notin Dev
                THEN [m EXCEPT !.halt = "panic"]
                ELSE [m EXCEPT
                        !.st = ZeroFill(StoreIndex(@, indblock, m.sector_ofs, new),
                                        Range(new)),
                        !.halt = IF m.sector_ofs + sectors_to_write > INDBLOCK_NUM_CHILDREN
                                   THEN "overrun" ELSE @,
                        !.p = @ + sectors_to_write,
                        !.sector_ofs = 0,
                        !.total = @ - sectors_to_write]

\* The while loop of inode_disk_extend_doubly_indblock_children.
RECURSIVE DoublyLoop(_, _, _, _)
DoublyLoop(m, direct_children_left, direct_children_sectors, garbage) ==
  IF direct_children_left = 0
    THEN [m |-> m, direct_children_sectors |-> direct_children_sectors]
    ELSE LET child == SectorAt(m.sectors, m.q, garbage) IN
         DoublyLoop(inode_disk_extend_indblock_children([m EXCEPT !.q = @ + 1], child),
                    direct_children_left - 1,
                    Append(direct_children_sectors, child), garbage)

\* The end of inode_disk_extend_doubly_indblock_children: l is what the while
\* loop left, direct_children_sectors is stored into the doubly indirect block
\* at the byte offset first_indblock.
DoublyStore(l, doubly_indblock, first_indblock, num_direct_children) ==
  IF l.m.halt = "panic"
    THEN l.m
    ELSE IF doubly_indblock \notin Dev
      THEN [l.m EXCEPT !.halt = "panic"]
      ELSE [l.m EXCEPT
              !.st = StoreAtByte(@, doubly_indblock, first_indblock,
                                 l.direct_children_sectors),
              !.halt = IF first_indblock + num_direct_children * SECTOR_T_SIZE
                          > INDBLOCK_NUM_CHILDREN * SECTOR_T_SIZE
                         THEN "overrun" ELSE @]

\* inode_disk_extend_doubly_indblock_children.
inode_disk_extend_doubly_indblock_children(m, doubly_indblock, garbage) ==
  LET num_direct_children == DivRoundUp(m.total, INDBLOCK_NUM_CHILDREN + 1)
      first_indblock == m.sector_ofs \div (INDBLOCK_NUM_CHILDREN + 1)
      rest == m.sector_ofs % (INDBLOCK_NUM_CHILDREN + 1)
  IN DoublyStore(DoublyLoop([m EXCEPT !.sector_ofs = IF rest > 0 THEN rest - 1 ELSE rest],
                            num_direct_children, <<>>, garbage),
                 doubly_indblock, first_indblock, num_direct_children)

\* inode_disk_extend, "Write indblock if needed" and "Write doubly indblock if
\* needed": the next of indirect_sectors becomes the block when sector_ofs is 0.
ExtendIndblock(m, garbage) ==
  IF m.sector_ofs = 0
    THEN [m EXCEPT !.ino.indblock = SectorAt(m.sectors, m.q, garbage), !.q = @ + 1]
    ELSE m

ExtendDoublyIndblock(m, garbage) ==
  IF m.sector_ofs = 0
    THEN [m EXCEPT !.ino.doubly_indblock = SectorAt(m.sectors, m.q, garbage), !.q = @ + 1]
    ELSE m

\* inode_disk_extend behind the indirect block's children: return, or go on
\* with the doubly indirect block.
ExtendAfterIndblock(m, garbage) ==
  IF m.total <= 0 \/ m.halt = "panic"
    THEN m
    ELSE inode_disk_extend_doubly_indblock_children(
           ExtendDoublyIndblock(m, garbage),
           ExtendDoublyIndblock(m, garbage).ino.doubly_indblock, garbage)

\* inode_disk_extend behind inode_disk_extend_dblock: return, or go on with the
\* indirect block.
ExtendAfterDblock(m, garbage) ==
  IF m.total <= 0
    THEN m
    ELSE ExtendAfterIndblock(
           inode_disk_extend_indblock_children(ExtendIndblock(m, garbage),
                                               ExtendIndblock(m, garbage).ino.indblock),
           garbage)

\* What inode_disk_extend returns once free_map_allocate gave it the sectors.
ExtendAllocated(a, m, fbits) ==
  [ok |-> TRUE, ino |-> m.ino, st |-> m.st, map |-> a.map,
   fbits |-> IF a.wrote THEN a.map ELSE fbits,
   alloc |-> "ok", got |-> a.sectorp, halt |-> m.halt]

\* inode_disk_extend from the call of free_map_allocate (result a) on.
ExtendWith(same, a, ino1, data_sectors_to_write, sector_ofs, garbage) ==
  IF ~a.ok
    THEN [same EXCEPT !.ino = ino1, !.map = a.map, !.alloc = "failed"]
    ELSE ExtendAllocated(
           a,
           ExtendAfterDblock(
             inode_disk_extend_dblock(
               [st |-> same.st, ino |-> ino1, sectors |-> a.sectorp, p |-> 1,
                q |-> data_sectors_to_write + 1, sector_ofs |-> sector_ofs,
                total |-> data_sectors_to_write, halt |-> "none"]),
             garbage),
           same.fbits)

\* inode_disk_extend that asks the allocator for one sector whatever the
\* lengths are.
inode_disk_extend_one_more(st, map, fbits, ino, new_length, file_open, write_ok, garbage) ==
  ExtendWith([ok |-> FALSE, ino |-> ino, st |-> st, map |-> map, fbits |-> fbits,
              alloc |-> "none", got |-> <<>>, halt |-> "none"],
             FreeMapAllocate(map, 1, file_open, write_ok),
             [ino EXCEPT !.length = new_length], 1,
             bytes_to_data_sectors(ino.length), garbage)

\* inode_disk_extend.  Result: ok (the value returned), the struct inode_disk,
\* the device, the bitmap and the bitmap file, alloc ("none": free_map_allocate
\* not called, "ok", "failed"), got (the sectors obtained) and halt ("none",
\* "panic": a sector outside the device was accessed, "overrun": a store ran
\* past the end of a cache slot).
inode_disk_extend(st, map, fbits, ino, new_length, file_open, write_ok, garbage) ==
  LET same == [ok |-> FALSE, ino |-> ino, st |-> st, map |-> map, fbits |-> fbits,
               alloc |-> "none", got |-> <<>>, halt |-> "none"]
  IN
  IF new_length < ino.length
    THEN same
    ELSE
      LET sectors_to_write == bytes_to_sectors(new_length) - bytes_to_sectors(ino.length)
          data_sectors_to_write ==
            bytes_to_data_sectors(new_length) - bytes_to_data_sectors(ino.length)
          sector_ofs == bytes_to_data_sectors(ino.length)
          ino1 == [ino EXCEPT !.length = new_length]
      IN
      IF sectors_to_write = 0
        THEN [same EXCEPT !.ok = TRUE, !.ino = ino1]
        ELSE ExtendWith(same, FreeMapAllocate(map, sectors_to_write, file_open, write_ok),
                        ino1, data_sectors_to_write, sector_ofs, garbage)

\* byte_to_sector that takes every sector of the doubly indirect region from
\* the first child of the doubly indirect block.
byte_to_sector_first_child(st, ino, pos) ==
  LET sector_num == pos \div BLOCK_SECTOR_SIZE
      in_ind == sector_num - INODE_NUM_DBLOCKS
      in_dbl == in_ind - INDBLOCK_NUM_CHILDREN
  IN
  IF sector_num < INODE_NUM_DBLOCKS
    THEN [panic |-> FALSE, sector |-> ino.dblocks[sector_num]]
    ELSE IF in_ind < INDBLOCK_NUM_CHILDREN
      THEN IF ino.indblock \in Dev
             THEN [panic |-> FALSE, sector |-> st[ino.indblock][in_ind]]
             ELSE [panic |-> TRUE, sector |-> None]
      ELSE IF in_dbl < DOUBLY_INDBLOCK_NUM_GRANDCHILDREN
        THEN IF ino.doubly_indblock \in Dev /\ st[ino.doubly_indblock][0] \in Dev
               THEN [panic |-> FALSE,
                     sector |-> st[st[ino.doubly_indblock][0]][in_dbl % INDBLOCK_NUM_CHILDREN]]
               ELSE [panic |-> TRUE, sector |-> None]
        ELSE [panic |-> FALSE, sector |-> None]

\* byte_to_sector.  panic: the block layer was asked for a sector outside the
\* device while an index block was fetched.
byte_to_sector(st, ino, pos) ==
  LET sector_num == pos \div BLOCK_SECTOR_SIZE
      in_ind == sector_num - INODE_NUM_DBLOCKS
      in_dbl == in_ind - INDBLOCK_NUM_CHILDREN
  IN
  IF sector_num < INODE_NUM_DBLOCKS
    THEN [panic |-> FALSE, sector |-> ino.dblocks[sector_num]]
    ELSE IF in_ind < INDBLOCK_NUM_CHILDREN
      THEN IF ino.indblock \in Dev
             THEN [panic |-> FALSE, sector |-> st[ino.indblock][in_ind]]
             ELSE [panic |-> TRUE, sector |-> None]
      ELSE IF in_dbl < DOUBLY_INDBLOCK_NUM_GRANDCHILDREN
        THEN IF ino.doubly_indblock \in Dev
               THEN LET child == st[ino.doubly_indblock][in_dbl \div INDBLOCK_NUM_CHILDREN]
                    IN IF child \in Dev
                         THEN [panic |-> FALSE,
                               sector |-> st[child][in_dbl % INDBLOCK_NUM_CHILDREN]]
                         ELSE [panic |-> TRUE, sector |-> None]
               ELSE [panic |-> TRUE, sector |-> None]
        ELSE [panic |-> FALSE, sector |-> None]

\* a < b for two unsigned values, each written as the integer it is congruent
\* to modulo 2^32 (a negative integer stands for a value above 2^31).
ULess(a, b) == IF (a < 0) = (b < 0) THEN a < b ELSE b < 0

\* indblock[i] of a buffer of INDBLOCK_NUM_CHILDREN entries read from a sector.
IndexAt(cells, i, garbage) ==
  IF i < INDBLOCK_NUM_CHILDREN THEN cells[i] ELSE garbage

\* inode_disk_free_sector: free_map_release (sector, 1) and --*sectors_left.
\* r carries the bitmap, the bitmap file, sectors_left, the sectors released
\* and halt ("panic" once an ASSERT of bitmap_all or free_map_release failed).
inode_disk_free_sector(r, sector) ==
  IF r.halt # "none"
    THEN r
    ELSE IF sector \notin Dev
      THEN [r EXCEPT !.halt = "panic"]
      ELSE IF ~ReleaseAssert(r.map, sector, 1)
        THEN [r EXCEPT !.halt = "panic"]
        ELSE [r EXCEPT !.map = ReleaseBits(@, sector, 1),
                       !.fbits = ReleaseBits(r.map, sector, 1),
                       !.sectors_left = @ - 1,
                       !.released = Append(@, sector)]

RECURSIVE FreeEach(_, _, _)
FreeEach(r, ptrs, k) ==
  IF k > Len(ptrs) THEN r
  ELSE FreeEach(inode_disk_free_sector(r, ptrs[k]), ptrs, k + 1)

\* One round of the while loop of inode_disk_free, behind inode_disk_free_sector
\* (indblock[i], ...): the for loop over nested_indblock.
FreeNested(r, nested_indblock) ==
  FreeEach(r,
           [j \in 1 .. (IF ULess(r.sectors_left, INDBLOCK_NUM_CHILDREN)
                          THEN r.sectors_left ELSE INDBLOCK_NUM_CHILDREN) |->
              nested_indblock[j - 1]],
           1)

\* The while loop of inode_disk_free over the doubly indirect block: i stays 0.
RECURSIVE FreeDoubly(_, _, _)
FreeDoubly(st, r, indblock) ==
  IF r.halt # "none" \/ r.sectors_left = 0
    THEN r
    ELSE IF indblock[0] \notin Dev
      THEN [r EXCEPT !.halt = "panic"]
      ELSE FreeDoubly(st,
                      FreeNested(inode_disk_free_sector(r, indblock[0]), st[indblock[0]]),
                      indblock)

\* The for loop of inode_disk_free over the indirect block; r: behind
\* inode_disk_free_sector (inode_disk->indblock, ...).
FreeIndblockChildren(r, indblock, garbage) ==
  FreeEach(r,
           [i \in 1 .. (IF ULess(r.sectors_left, INDBLOCK_END_BOUND)
                          THEN r.sectors_left ELSE INDBLOCK_END_BOUND) |->
              IndexAt(indblock, i - 1, garbage)],
           1)

\* inode_disk_free behind the indirect block: sectors_left -= INDBLOCK_END_BOUND,
\* the unsigned test, the doubly indirect block.
FreeAfterIndblock(st, r, ino) ==
  IF r.halt # "none"
    THEN r
    ELSE IF r.sectors_left - INDBLOCK_END_BOUND = 0
      THEN [r EXCEPT !.sectors_left = @ - INDBLOCK_END_BOUND]
      ELSE IF ino.doubly_indblock \notin Dev
        THEN [r EXCEPT !.sectors_left = @ - INDBLOCK_END_BOUND, !.halt = "panic"]
        ELSE FreeDoubly(st,
                        inode_disk_free_sector(
                          [r EXCEPT !.sectors_left = @ - INDBLOCK_END_BOUND],
                          ino.doubly_indblock),
                        st[ino.doubly_indblock])

\* inode_disk_free behind the direct blocks: sectors_left -= DBLOCK_END_BOUND,
\* the (int) test, the indirect block.
FreeAfterDblocks(st, r, ino, garbage) ==
  IF r.halt # "none"
    THEN r
    ELSE IF r.sectors_left - DBLOCK_END_BOUND <= 0
      THEN [r EXCEPT !.sectors_left = @ - DBLOCK_END_BOUND]
      ELSE IF ino.indblock \notin Dev
        THEN [r EXCEPT !.sectors_left = @ - DBLOCK_END_BOUND, !.halt = "panic"]
        ELSE FreeAfterIndblock(
               st,
               FreeIndblockChildren(
                 inode_disk_free_sector([r EXCEPT !.sectors_left = @ - DBLOCK_END_BOUND],
                                        ino.indblock),
                 st[ino.indblock], garbage),
               ino)

\* inode_disk_free.  sectors_left is unsigned: it is kept as an integer that
\* goes below zero where the C value wraps around.
inode_disk_free(st, r0, ino, garbage) ==
  FreeAfterDblocks(
    st,
    FreeEach([r0 EXCEPT !.sectors_left = bytes_to_sectors(ino.length)],
             [i \in 1 .. Min(bytes_to_sectors(ino.length), DBLOCK_END_BOUND) |->
                ino.dblocks[i - 1]],
             1),
    ino, garbage)

\* The bytes cache_read_partial (sector, ..., sector_ofs, chunk_size) copies out.
ReadData(st, sector, sector_ofs, chunk_size) ==
  [k \in 1 .. chunk_size |-> st[sector][sector_ofs + k - 1]]

\* cache_write_partial (sector, bytes, sector_ofs, Len (bytes)) on a data sector.
StoreData(st, sector, sector_ofs, bytes) ==
  [st EXCEPT ![sector] =
     [c \in Cells |->
        IF c >= sector_ofs /\ c < sector_ofs + Len(bytes)
          THEN bytes[c - sector_ofs + 1] ELSE @[c]]]

\* The buffer the callers write: its k-th byte, counted from 0.
Pattern(pat, k) == (pat + k) % (MaxByte + 1)

\* The while loop of inode_read_at.  cache_read_async on a sector outside the
\* device makes the block layer panic in the read-ahead thread.
RECURSIVE ReadLoop(_, _, _, _, _, _)
ReadLoop(st, ino, inode_sector, size, offset, bytes) ==
  IF size <= 0
    THEN [halt |-> "none", bytes |-> bytes]
    ELSE
      LET b == byte_to_sector(st, ino, offset)
          sector_ofs == offset % BLOCK_SECTOR_SIZE
          inode_left == inode_length(st, inode_sector) - offset
          sector_left == BLOCK_SECTOR_SIZE - sector_ofs
          min_left == Min(inode_left, sector_left)
          chunk_size == Min(size, min_left)
          next_inode_left == inode_length(st, inode_sector) - (offset + chunk_size)
          ahead == byte_to_sector(st, ino, offset + chunk_size)
      IN
      IF b.panic THEN [halt |-> "panic", bytes |-> bytes]
      ELSE IF chunk_size <= 0 THEN [halt |-> "none", bytes |-> bytes]
      ELSE IF size - chunk_size > 0 /\ next_inode_left > 0
              /\ (ahead.panic \/ ahead.sector \notin Dev)
        THEN [halt |-> "panic", bytes |-> bytes]
      ELSE IF b.sector \notin Dev THEN [halt |-> "panic", bytes |-> bytes]
      ELSE ReadLoop(st, ino, inode_sector, size - chunk_size, offset + chunk_size,
                    bytes \o ReadData(st, b.sector, sector_ofs, chunk_size))

\* The while loop of inode_write_at; wrote collects the sectors stored into.
RECURSIVE WriteLoop(_, _, _, _, _, _, _, _)
WriteLoop(st, ino, inode_sector, pat, size, offset, bytes_written, wrote) ==
  LET done == [halt |-> "none", st |-> st, bytes_written |-> bytes_written,
               wrote |-> wrote]
  IN
  IF size <= 0
    THEN done
    ELSE
      LET b == byte_to_sector(st, ino, offset)
          sector_ofs == offset % BLOCK_SECTOR_SIZE
          inode_left == inode_length(st, inode_sector) - offset
          sector_left == BLOCK_SECTOR_SIZE - sector_ofs
          min_left == Min(inode_left, sector_left)
          chunk_size == Min(size, min_left)
      IN
      IF b.panic THEN [done EXCEPT !.halt = "panic"]
      ELSE IF chunk_size <= 0 THEN done
      ELSE IF b.sector \notin Dev THEN [done EXCEPT !.halt = "panic"]
      ELSE WriteLoop(StoreData(st, b.sector, sector_ofs,
                               [k \in 1 .. chunk_size |->
                                  Pattern(pat, bytes_written + k - 1)]),
                     ino, inode_sector, pat, size - chunk_size, offset + chunk_size,
                     bytes_written + chunk_size, wrote \cup {b.sector})

\* The end of inode_create: cache_write (sector, inode_disk) when the extension
\* e succeeded; the value returned is true whenever calloc succeeded.
InodeCreated(e, sector) ==
  [ret |-> TRUE, ext |-> e,
   st |-> IF e.ok /\ e.halt # "panic"
            THEN [e.st EXCEPT ![sector] = inode_disk_image(e.ino)]
            ELSE e.st]

\* inode_create
inode_create(st, map, fbits, sector, length, is_dir, file_open, write_ok, garbage) ==
  InodeCreated(
    inode_disk_extend(st, map, fbits,
                      [ZeroInode EXCEPT !.is_dir = is_dir, !.magic = INODE_MAGIC],
                      length, file_open, write_ok, garbage),
    sector)

\* The lookup of inode_open that never finds an open inode.
FindOpenNever(list, sector, e) == 0 * e

\* The loop of inode_open over open_inodes: the position of the handle whose
\* sector is SECTOR, 0 when there is none.
RECURSIVE FindOpen(_, _, _)
FindOpen(list, sector, e) ==
  IF e > Len(list) THEN 0
  ELSE IF list[e].sector = sector THEN e
  ELSE FindOpen(list, sector, e + 1)

\* A handle whose deny_write_cnt inode_open does not clear.
NewInodeDenied(sector) ==
  [sector |-> sector, open_cnt |-> 1, removed |-> FALSE, deny_write_cnt |-> 1]

\* The handle malloc'ed and initialised by inode_open.
NewInode(sector) ==
  [sector |-> sector, open_cnt |-> 1, removed |-> FALSE, deny_write_cnt |-> 0]

\* list_remove (&inode->elem)
ListRemove(list, e) == SubSeq(list, 1, e - 1) \o SubSeq(list, e + 1, Len(list))

\* ----- the state after filesys_init (true): do_format and free_map_open -----

\* A device whose sectors were never written: zeros on a fresh image (raw = 0),
\* or what earlier use left there (raw = Wild).
RawDevice(raw) == [s \in Dev |-> [c \in Cells |-> raw]]

\* free_map_init on the device of the inode layer.
DevFreeMapInit == [i \in Dev |-> i \in {FREE_MAP_SECTOR, ROOT_DIR_SECTOR}]

\* do_format: free_map_create makes the inode of the free map file while
\* free_map_file is NULL (result a), dir_create_root the inode of the root
\* directory; each file takes one sector of data.
FormatRoot(a) ==
  inode_create(a.st, a.ext.map, a.ext.map, ROOT_DIR_SECTOR, BLOCK_SECTOR_SIZE, 1,
               TRUE, TRUE, Wild)

Formatted(raw) ==
  FormatRoot(inode_create(RawDevice(raw), DevFreeMapInit, DevFreeMapInit,
                          FREE_MAP_SECTOR, BLOCK_SECTOR_SIZE, 0, FALSE, TRUE, Wild))

\* The sectors the two files made by do_format occupy.
FormatSectors == {s \in Dev : Formatted(0).ext.map[s]}

NoHist == [live |-> FALSE, clean |-> FALSE, got |-> <<>>, born |-> None]

NoBits == [i \in Dev |-> FALSE]

NoInodeCall ==
  [call |-> "none", sector |-> 0, size |-> 0, offset |-> 0, ok |-> TRUE, ret |-> 0,
   alloc |-> "none", got |-> <<>>, before |-> NoBits, image |-> [c \in Cells |-> 0],
   owned |-> {}, wrote |-> {}, bytes |-> <<>>, found |-> FALSE, cnt |-> 0,
   handles |-> 0, last |-> FALSE, removed |-> FALSE, released |-> <<>>,
   halt |-> "none"]

NoTrail == [stage |-> "none", sector |-> 0, length |-> 0, before |-> NoBits,
            n |-> 0, pat |-> 0]

\* The references held on the inode in SECTOR, over the handles from k on.
RECURSIVE OpenCountFrom(_, _, _)
OpenCountFrom(list, sector, k) ==
  IF k > Len(list) THEN 0
  ELSE (IF list[k].sector = sector THEN list[k].open_cnt ELSE 0)
       + OpenCountFrom(list, sector, k + 1)

OpenCount(list, sector) == OpenCountFrom(list, sector, 1)

\* The pointer the structure of INO holds for data sector d, None where an
\* index block on the way is no sector of the device or d is out of reach.
DataLink(st, ino, d) ==
  LET b == byte_to_sector(st, ino, d * BLOCK_SECTOR_SIZE) IN
  IF b.panic THEN None ELSE b.sector

\* The pointers the structure of INO holds for a file of its length: one per
\* data sector, then the indirect block, the doubly indirect block and the
\* children of the doubly indirect block that the length needs.
Links(st, ino) ==
  LET data == bytes_to_data_sectors(ino.length)
      in_dbl == data - INODE_NUM_DBLOCKS - INDBLOCK_NUM_CHILDREN
      children == IF in_dbl > 0 THEN DivRoundUp(in_dbl, INDBLOCK_NUM_CHILDREN) ELSE 0
  IN [d \in 1 .. data |-> DataLink(st, ino, d - 1)]
     \o (IF data > INODE_NUM_DBLOCKS THEN <<ino.indblock>> ELSE <<>>)
     \o (IF in_dbl > 0 THEN <<ino.doubly_indblock>> ELSE <<>>)
     \o [k \in 1 .. children |->
           IF ino.doubly_indblock \in Dev /\ k - 1 < INDBLOCK_NUM_CHILDREN
             THEN st[ino.doubly_indblock][k - 1] ELSE None]

\* filesys_create in a directory that has room (dir_add succeeds):
\* free_map_allocate (1, &inode_sector), then inode_create.  inode_sector is
\* released when a step failed and inode_sector is not 0.
filesys_create(initial_size) ==
  /\ ~panicked /\ ~overrun
  /\ creates < MaxFiles
  /\ creates' = creates + 1
  /\ UNCHANGED <<open_inodes, free_map_file, writes>>
  /\ UNCHANGED <<cvars, fm_last, held, junk>>
  /\ \E a \in {FreeMapAllocate(free_map, 1, TRUE, TRUE)} :
       IF ~a.ok
         THEN /\ free_map' = a.map
              /\ ilast' = [NoInodeCall EXCEPT !.call = "filesys_create", !.ok = FALSE,
                                              !.size = initial_size, !.alloc = "failed",
                                              !.before = free_map]
              /\ trail' = NoTrail
              /\ UNCHANGED <<file_bits, sect, hist, panicked, overrun>>
         ELSE
           \E c \in {inode_create(sect, a.map, a.map, a.sectorp[1], initial_size, 0,
                                  TRUE, TRUE, junk)} :
             LET inode_sector == a.sectorp[1]
                 success == c.ret
                 undo == ~success /\ inode_sector # 0 /\ c.ext.halt # "panic"
                 assert_ok == ReleaseAssert(c.ext.map, inode_sector, 1)
                 map1 == IF undo /\ assert_ok THEN ReleaseBits(c.ext.map, inode_sector, 1)
                         ELSE c.ext.map
             IN /\ free_map' = map1
                /\ file_bits' = IF undo /\ assert_ok THEN map1 ELSE c.ext.fbits
                /\ sect' = c.st
                /\ panicked' = (c.ext.halt = "panic" \/ (undo /\ ~assert_ok))
                /\ overrun' = (c.ext.halt = "overrun")
                /\ hist' = IF success
                             THEN [hist EXCEPT ![inode_sector] =
                                     [live |-> TRUE, clean |-> c.ext.ok, got |-> c.ext.got,
                                      born |-> IF c.ext.ok THEN initial_size ELSE None]]
                             ELSE hist
                /\ ilast' = [NoInodeCall EXCEPT
                               !.call = "inode_create", !.sector = inode_sector,
                               !.size = initial_size, !.ok = c.ret, !.alloc = c.ext.alloc,
                               !.got = c.ext.got, !.before = a.map,
                               !.image = sect[inode_sector], !.halt = c.ext.halt]
                /\ trail' = IF success /\ c.ext.ok
                              THEN [NoTrail EXCEPT !.stage = "created",
                                                   !.sector = inode_sector,
                                                   !.length = initial_size,
                                                   !.before = free_map]
                              ELSE NoTrail

\* inode_open (sector) for a file of the directory: the handle found is
\* reopened, otherwise a new one is pushed to the front of the list.
inode_open(sector) ==
  /\ ~panicked /\ ~overrun
  /\ hist[sector].live
  /\ \A k \in 1 .. Len(open_inodes) :
       open_inodes[k].sector = sector => ~open_inodes[k].removed
  /\ OpenCount(open_inodes, sector) < MaxOpen
  /\ LET e == FindOpen(open_inodes, sector, 1) IN
       /\ open_inodes' = IF e # 0
                           THEN [open_inodes EXCEPT ![e].open_cnt = @ + 1]
                           ELSE <<NewInode(sector)>> \o open_inodes
       /\ ilast' = [NoInodeCall EXCEPT
                      !.call = "inode_open", !.sector = sector,
                      !.found = (OpenCount(open_inodes, sector) > 0),
                      !.cnt = OpenCount(open_inodes, sector),
                      !.handles = Len(open_inodes)]
       /\ trail' = IF trail.stage = "created" /\ trail.sector = sector /\ e = 0
                     THEN [trail EXCEPT !.stage = "opened"]
                     ELSE NoTrail
  /\ UNCHANGED <<sect, hist, creates, writes, overrun, free_map, file_bits,
                 free_map_file, panicked>>
  /\ UNCHANGED <<cvars, fm_last, held, junk>>

\* inode_remove (inode)
inode_remove(e) ==
  /\ ~panicked /\ ~overrun
  /\ e \in 1 .. Len(open_inodes)
  /\ ~open_inodes[e].removed
  /\ open_inodes' = [open_inodes EXCEPT ![e].removed = TRUE]
  /\ ilast' = [NoInodeCall EXCEPT
                 !.call = "inode_remove", !.sector = open_inodes[e].sector,
                 !.before = free_map, !.image = sect[open_inodes[e].sector]]
  /\ trail' = IF trail.stage = "opened" /\ trail.sector = open_inodes[e].sector
                THEN [trail EXCEPT !.stage = "removed"]
                ELSE NoTrail
  /\ UNCHANGED <<sect, hist, creates, writes, overrun, free_map, file_bits,
                 free_map_file, panicked>>
  /\ UNCHANGED <<cvars, fm_last, held, junk>>

\* inode_close (inode)
inode_close(e) ==
  /\ ~panicked /\ ~overrun
  /\ e \in 1 .. Len(open_inodes)
  /\ LET inode == open_inodes[e]
         last == inode.open_cnt - 1 = 0
         idle == [map |-> free_map, fbits |-> file_bits, sectors_left |-> 1,
                  released |-> <<>>, halt |-> "none"]
     IN \E r \in {IF last /\ inode.removed
                    THEN inode_disk_free(sect, inode_disk_free_sector(idle, inode.sector),
                                         inode_get_data(sect, inode.sector), junk)
                    ELSE idle} :
        /\ open_inodes' = IF last THEN ListRemove(open_inodes, e)
                          ELSE [open_inodes EXCEPT ![e].open_cnt = @ - 1]
        /\ free_map' = r.map
        /\ file_bits' = r.fbits
        /\ panicked' = (r.halt = "panic")
        /\ hist' = IF last /\ inode.removed
                     THEN [hist EXCEPT ![inode.sector] = NoHist]
                     ELSE hist
        /\ ilast' = [NoInodeCall EXCEPT
                       !.call = "inode_close", !.sector = inode.sector,
                       !.before = free_map, !.image = sect[inode.sector],
                       !.owned = Range(Links(sect, inode_get_data(sect, inode.sector))),
                       !.last = last, !.removed = inode.removed,
                       !.released = r.released, !.halt = r.halt]
        /\ trail' = IF trail.stage = "removed" /\ trail.sector = inode.sector /\ last
                      THEN [trail EXCEPT !.stage = "closed"]
                      ELSE NoTrail
  /\ UNCHANGED <<sect, creates, writes, overrun, free_map_file>>
  /\ UNCHANGED <<cvars, fm_last, held, junk>>

\* inode_read_at (inode, buffer, size, offset)
inode_read_at(e, size, offset) ==
  /\ ~panicked /\ ~overrun
  /\ e \in 1 .. Len(open_inodes)
  /\ size \in {inode_length(sect, open_inodes[e].sector), MaxLen}
  /\ LET inode == open_inodes[e] IN
     \E r \in {ReadLoop(sect, inode_get_data(sect, inode.sector), inode.sector,
                        size, offset, <<>>)} :
        /\ panicked' = (r.halt = "panic")
        /\ ilast' = [NoInodeCall EXCEPT
                       !.call = "inode_read_at", !.sector = inode.sector,
                       !.size = size, !.offset = offset, !.ret = Len(r.bytes),
                       !.bytes = r.bytes, !.halt = r.halt]
        /\ trail' = IF trail.sector = inode.sector /\ offset = 0
                       /\ trail.stage = "opened" /\ size = trail.length
                      THEN [trail EXCEPT !.stage = "read"]
                    ELSE IF trail.sector = inode.sector /\ offset = 0
                            /\ trail.stage = "written" /\ size = trail.n
                      THEN [trail EXCEPT !.stage = "readback"]
                    ELSE NoTrail
  /\ UNCHANGED <<sect, open_inodes, hist, creates, writes, overrun, free_map,
                 file_bits, free_map_file>>
  /\ UNCHANGED <<cvars, fm_last, held, junk>>

\* The test of inode_write_at that never refuses a write.
DeniedNever(inode) == inode.deny_write_cnt < 0

\* if (inode->deny_write_cnt) at the head of inode_write_at.
Denied(inode) == inode.deny_write_cnt # 0

\* inode_write_at (inode, buffer, size, offset); the buffer holds Pattern (pat, .)
inode_write_at(e, size, offset, pat) ==
  /\ ~panicked /\ ~overrun
  /\ e \in 1 .. Len(open_inodes)
  /\ offset + size <= MaxLen
  /\ writes < MaxWrites
  /\ writes' = writes + 1
  /\ LET inode == open_inodes[e]
         inode_disk == inode_get_data(sect, inode.sector)
         denied == Denied(inode)
     IN
     \E x \in {inode_disk_extend(sect, free_map, file_bits, inode_disk, offset + size,
                                 TRUE, TRUE, junk)} :
     \E w \in {IF x.halt = "panic"
                 THEN [halt |-> "panic", st |-> x.st, bytes_written |-> 0, wrote |-> {}]
                 ELSE WriteLoop(IF x.ok
                                  THEN [x.st EXCEPT ![inode.sector] = inode_disk_image(x.ino)]
                                  ELSE x.st,
                                x.ino, inode.sector, pat, size, offset, 0, {})} :
        /\ sect' = IF denied THEN sect ELSE w.st
        /\ free_map' = IF denied THEN free_map ELSE x.map
        /\ file_bits' = IF denied THEN file_bits ELSE x.fbits
        /\ panicked' = (~denied /\ w.halt = "panic")
        /\ overrun' = (~denied /\ x.halt = "overrun")
        /\ hist' = IF denied THEN hist
                   ELSE [hist EXCEPT
                           ![inode.sector].clean = @ /\ x.alloc # "failed",
                           ![inode.sector].got = @ \o x.got,
                           ![inode.sector].born = None]
        /\ ilast' = [NoInodeCall EXCEPT
                       !.call = "inode_write_at", !.sector = inode.sector,
                       !.size = size, !.offset = offset,
                       !.ret = IF denied THEN 0 ELSE w.bytes_written,
                       !.ok = x.ok, !.alloc = IF denied THEN "none" ELSE x.alloc,
                       !.got = x.got, !.before = free_map,
                       !.image = sect[inode.sector],
                       !.owned = Range(Links(sect, inode_disk)),
                       !.wrote = w.wrote, !.halt = w.halt]
        /\ trail' = IF trail.stage = "opened" /\ trail.sector = inode.sector
                       /\ trail.length = 0 /\ offset = 0 /\ ~denied
                       /\ x.alloc # "failed"
                      THEN [trail EXCEPT !.stage = "written", !.n = size, !.pat = pat]
                      ELSE NoTrail
  /\ UNCHANGED <<open_inodes, creates, free_map_file>>
  /\ UNCHANGED <<cvars, fm_last, held, junk>>

(* ------------------ free-map.c, statement by statement ------------------ *)
\* free_map_allocate takes no lock and the kernel preempts a thread between
\* any two statements, so a thread inside it is followed from statement to
\* statement: at "test" it is at the head of the loop body, at "mark" behind a
\* bitmap_test that found bit i clear, at "write" at bitmap_write, at "undo" at
\* the loop that runs on failure.

Allocators == 1 .. NumAllocators

NotAllocating == [at |-> "out", cnt |-> 0, i |-> 0, sectorp |-> <<>>, ret |-> FALSE]

\* What a thread inside free_map_allocate leaves alone.
AllocateFrame ==
  UNCHANGED <<cvars, free_map_file, panicked, fm_last, held, ivars, opener, mallocs, frees, copier, rlast, avars, xvars>>

\* free_map_allocate (cnt, sectorp) up to the first test of the loop condition.
AllocateCall(t, cnt) ==
  /\ fma[t].at = "out"
  /\ fma' = [fma EXCEPT ![t] =
               IF cnt = 0
                 THEN [NotAllocating EXCEPT !.at = "returned", !.ret = TRUE]
                 ELSE [NotAllocating EXCEPT !.at = "test", !.cnt = cnt]]
  /\ UNCHANGED <<free_map, file_bits>>
  /\ AllocateFrame

\* i < free_map_size and bitmap_test (free_map, i); allocated == cnt cannot hold
\* behind a bit that was found set.
AllocateTest(t) ==
  /\ fma[t].at = "test"
  /\ fma' = [fma EXCEPT ![t].at = IF fma[t].i \notin DOMAIN free_map THEN "undo"
                                  ELSE IF ~free_map[fma[t].i] THEN "mark"
                                  ELSE "test",
                        ![t].i = IF fma[t].i \in DOMAIN free_map /\ free_map[fma[t].i]
                                   THEN @ + 1 ELSE @]
  /\ UNCHANGED <<free_map, file_bits>>
  /\ AllocateFrame

\* sectorp[allocated++] = i; bitmap_mark (free_map, i); if (allocated == cnt)
AllocateMark(t) ==
  /\ fma[t].at = "mark"
  /\ free_map' = [free_map EXCEPT ![fma[t].i] = TRUE]
  /\ fma' = [fma EXCEPT ![t].sectorp = Append(@, fma[t].i),
                        ![t].at = IF Len(fma[t].sectorp) + 1 = fma[t].cnt
                                    THEN "write" ELSE "test",
                        ![t].i = IF Len(fma[t].sectorp) + 1 = fma[t].cnt THEN @ ELSE @ + 1]
  /\ UNCHANGED file_bits
  /\ AllocateFrame

\* !free_map_file || bitmap_write (free_map, free_map_file): return true, or break.
AllocateWrite(t, write_ok) ==
  /\ fma[t].at = "write"
  /\ IF free_map_file # "open"
       THEN /\ fma' = [fma EXCEPT ![t].at = "returned", ![t].ret = TRUE]
            /\ UNCHANGED file_bits
       ELSE IF write_ok
         THEN /\ fma' = [fma EXCEPT ![t].at = "returned", ![t].ret = TRUE]
              /\ file_bits' = free_map
         ELSE /\ fma' = [fma EXCEPT ![t].at = "undo"]
              /\ UNCHANGED file_bits
  /\ UNCHANGED free_map
  /\ AllocateFrame

\* The loop that runs on failure, and return false.
AllocateFail(t) ==
  /\ fma[t].at = "undo"
  /\ free_map' = AllocateUndo(free_map, Len(fma[t].sectorp))
  /\ fma' = [fma EXCEPT ![t].at = "returned", ![t].ret = FALSE]
  /\ UNCHANGED file_bits
  /\ AllocateFrame

(* ------------------- inode.c, the handles of threads ------------------- *)
\* inode_open, inode_reopen, inode_close and inode_remove take no lock.  A
\* thread in inode_open is followed in two steps: the loop over open_inodes
\* (with inode_reopen, when the sector is found), and what follows the loop
\* (malloc, list_push_front, the initialisation).  Every struct inode in
\* open_inodes carries its address in ptr.

Openers == 1 .. NumOpeners

NotOpening == [at |-> "out", sector |-> 0, held |-> <<>>]

\* What the threads that use inodes leave alone.
OpenerFrame ==
  UNCHANGED <<cvars, free_map_file, fm_last, held, sect, ilast, trail, creates, writes,
              overrun, junk, fma, copier, rlast, avars, xvars>>

\* The position in open_inodes of the struct inode at address ptr, 0 when it is
\* not in the list.
RECURSIVE AtAddress(_, _, _)
AtAddress(list, ptr, e) ==
  IF e > Len(list) THEN 0
  ELSE IF list[e].ptr = ptr THEN e
  ELSE AtAddress(list, ptr, e + 1)

\* inode_open (sector) up to the end of the loop over open_inodes: the handle
\* found is reopened and returned.
InodeOpenScan(t, sector) ==
  /\ ~panicked
  /\ opener[t].at = "out"
  /\ hist[sector].live
  /\ \A k \in 1 .. Len(open_inodes) :
       open_inodes[k].sector = sector => ~open_inodes[k].removed
  /\ Len(opener[t].held) < MaxOpen
  /\ LET e == FindOpen(open_inodes, sector, 1) IN
       IF e # 0
         THEN /\ open_inodes' = [open_inodes EXCEPT ![e].open_cnt = @ + 1]
              /\ opener' = [opener EXCEPT ![t].held = Append(@, open_inodes[e].ptr)]
         ELSE /\ opener' = [opener EXCEPT ![t].at = "push", ![t].sector = sector]
              /\ UNCHANGED open_inodes
  /\ UNCHANGED <<free_map, file_bits, panicked, hist, mallocs, frees>>
  /\ OpenerFrame

\* inode_open behind the loop: malloc, list_push_front, the initialisation.
InodeOpenPush(t) ==
  /\ ~panicked
  /\ opener[t].at = "push"
  /\ mallocs < MaxInodes
  /\ mallocs' = mallocs + 1
  /\ open_inodes' = <<[ptr |-> mallocs + 1] @@ NewInode(opener[t].sector)>> \o open_inodes
  /\ opener' = [opener EXCEPT ![t].at = "out", ![t].held = Append(@, mallocs + 1)]
  /\ UNCHANGED <<free_map, file_bits, panicked, hist, frees>>
  /\ OpenerFrame

\* inode_reopen (inode) on the k-th pointer the thread holds.
InodeReopen(t, k) ==
  /\ ~panicked
  /\ opener[t].at = "out"
  /\ k \in 1 .. Len(opener[t].held)
  /\ Len(opener[t].held) < MaxOpen
  /\ AtAddress(open_inodes, opener[t].held[k], 1) # 0
  /\ open_inodes' = [open_inodes EXCEPT
                       ![AtAddress(open_inodes, opener[t].held[k], 1)].open_cnt = @ + 1]
  /\ opener' = [opener EXCEPT ![t].held = Append(@, opener[t].held[k])]
  /\ UNCHANGED <<free_map, file_bits, panicked, hist, mallocs, frees>>
  /\ OpenerFrame

\* inode_remove (inode) on the k-th pointer the thread holds.
InodeRemove(t, k) ==
  /\ ~panicked
  /\ opener[t].at = "out"
  /\ k \in 1 .. Len(opener[t].held)
  /\ AtAddress(open_inodes, opener[t].held[k], 1) # 0
  /\ ~open_inodes[AtAddress(open_inodes, opener[t].held[k], 1)].removed
  /\ open_inodes' = [open_inodes EXCEPT
                       ![AtAddress(open_inodes, opener[t].held[k], 1)].removed = TRUE]
  /\ UNCHANGED <<opener, free_map, file_bits, panicked, hist, mallocs, frees>>
  /\ OpenerFrame

\* inode_close (inode) on the k-th pointer the thread holds, which it gives up.
InodeClose(t, k) ==
  /\ ~panicked
  /\ opener[t].at = "out"
  /\ k \in 1 .. Len(opener[t].held)
  /\ AtAddress(open_inodes, opener[t].held[k], 1) # 0
  /\ LET e == AtAddress(open_inodes, opener[t].held[k], 1)
         inode == open_inodes[e]
         last == inode.open_cnt - 1 = 0
         idle == [map |-> free_map, fbits |-> file_bits, sectors_left |-> 1,
                  released |-> <<>>, halt |-> "none"]
     IN \E r \in {IF last /\ inode.removed
                    THEN inode_disk_free(sect, inode_disk_free_sector(idle, inode.sector),
                                         inode_get_data(sect, inode.sector), junk)
                    ELSE idle} :
        /\ open_inodes' = IF last THEN ListRemove(open_inodes, e)
                          ELSE [open_inodes EXCEPT ![e].open_cnt = @ - 1]
        /\ free_map' = r.map
        /\ file_bits' = r.fbits
        /\ panicked' = (r.halt = "panic")
        /\ hist' = IF last /\ inode.removed
                     THEN [hist EXCEPT ![inode.sector] = NoHist]
                     ELSE hist
        /\ frees' = IF last /\ r.halt # "panic"
                      THEN [frees EXCEPT ![inode.ptr] = @ + 1]
                      ELSE frees
  /\ opener' = [opener EXCEPT ![t].held = ListRemove(@, k)]
  /\ UNCHANGED mallocs
  /\ OpenerFrame

(* ---------------- cache.c, memcpy one byte at a time ------------------- *)
\* cache_read and cache_write call memcpy after get_cache_entry has released
\* cache_lock.  Here a sector has CopyBytes bytes and a memcpy moves them one
\* at a time, so that another thread can run between two of them.

Copiers == 1 .. NumCopiers
CopyOffsets == 0 .. (CopyBytes - 1)
\* The sector the threads share.
CopySectors == {1}

NotCopying == [at |-> "out", kind |-> "none", sector |-> 0, entry |-> 0, k |-> 0,
               buffer |-> <<>>, before |-> <<>>, ok |-> {}]
NoRead == [done |-> FALSE, sector |-> 0, buffer |-> <<>>, ok |-> {}]

CopyFrame ==
  UNCHANGED <<ticks, cache_lock, pc, op, wi, written, coherent, fresh, resolves, seen,
              evictions, victim_ok, fvars, ivars, fma, opener, mallocs, frees, avars,
              xvars>>

\* The source buffer of a cache_write as the content of a whole sector.
WholeSector(buffer) == [b \in CopyOffsets |-> buffer[b + 1]]

\* The contents of slot e at the beginning or the end of a cache_write: the one
\* in the slot when no cache_write is storing into it, else what that
\* cache_write found and what it leaves.
AtRest(c, e) ==
  IF \E u \in Copiers : copier[u].kind = "write" /\ copier[u].entry = e
    THEN UNION {{copier[u].before, WholeSector(copier[u].buffer)} :
                  u \in {w \in Copiers : copier[w].kind = "write" /\ copier[w].entry = e}}
    ELSE {c[e].data}

\* cache_read (sector, buffer, 0, BLOCK_SECTOR_SIZE) up to the return of
\* get_cache_entry.
CopyReadBegin(t, sector) ==
  /\ copier[t].at = "out"
  /\ cache_lock = "free"
  /\ \E r \in {get_cache_entry(cache, disk, sector)} :
       /\ cache' = r.cache
       /\ disk' = r.disk
       /\ copier' = [copier EXCEPT ![t] =
                       [at |-> "copy", kind |-> "read", sector |-> sector,
                        entry |-> r.entry, k |-> 0, buffer |-> <<>>, before |-> <<>>,
                        ok |-> AtRest(r.cache, r.entry)]]
  /\ UNCHANGED rlast
  /\ CopyFrame

\* One byte of the memcpy of cache_read.
CopyReadByte(t) ==
  /\ copier[t].at = "copy"
  /\ copier[t].kind = "read"
  /\ copier[t].k < CopyBytes
  /\ copier' = [copier EXCEPT
                  ![t].buffer = Append(@, cache[copier[t].entry].data[copier[t].k]),
                  ![t].k = @ + 1]
  /\ UNCHANGED <<cache, disk, rlast>>
  /\ CopyFrame

\* cache_read behind the memcpy.
CopyReadEnd(t) ==
  /\ copier[t].at = "copy"
  /\ copier[t].kind = "read"
  /\ copier[t].k = CopyBytes
  /\ cache' = [cache EXCEPT ![copier[t].entry].last_accessed_tick = ticks]
  /\ rlast' = [done |-> TRUE, sector |-> copier[t].sector,
               buffer |-> WholeSector(copier[t].buffer), ok |-> copier[t].ok]
  /\ copier' = [copier EXCEPT ![t] = NotCopying]
  /\ UNCHANGED disk
  /\ CopyFrame

\* cache_write (sector, buffer, 0, BLOCK_SECTOR_SIZE) up to the return of
\* get_cache_entry.  A cache_read that is copying from the slot may from now on
\* return what this call stores.
CopyWriteBegin(t, sector, buffer) ==
  /\ copier[t].at = "out"
  /\ cache_lock = "free"
  /\ \E r \in {get_cache_entry(cache, disk, sector)} :
       /\ cache' = r.cache
       /\ disk' = r.disk
       /\ copier' = [u \in Copiers |->
                       IF u = t
                         THEN [at |-> "copy", kind |-> "write", sector |-> sector,
                               entry |-> r.entry, k |-> 0, buffer |-> buffer,
                               before |-> r.cache[r.entry].data, ok |-> {}]
                       ELSE IF copier[u].kind = "read" /\ copier[u].entry = r.entry
                         THEN [copier[u] EXCEPT !.ok = @ \cup {WholeSector(buffer)}]
                       ELSE copier[u]]
  /\ UNCHANGED rlast
  /\ CopyFrame

\* One byte of the memcpy of cache_write.
CopyWriteByte(t) ==
  /\ copier[t].at = "copy"
  /\ copier[t].kind = "write"
  /\ copier[t].k < CopyBytes
  /\ cache' = [cache EXCEPT
                 ![copier[t].entry].data[copier[t].k] = copier[t].buffer[copier[t].k + 1]]
  /\ copier' = [copier EXCEPT ![t].k = @ + 1]
  /\ UNCHANGED <<disk, rlast>>
  /\ CopyFrame

\* cache_write behind the memcpy.
CopyWriteEnd(t) ==
  /\ copier[t].at = "copy"
  /\ copier[t].kind = "write"
  /\ copier[t].k = CopyBytes
  /\ cache' = [cache EXCEPT ![copier[t].entry].dirty = TRUE,
                            ![copier[t].entry].last_accessed_tick = ticks]
  /\ copier' = [copier EXCEPT ![t] = NotCopying]
  /\ UNCHANGED <<disk, rlast>>
  /\ CopyFrame

(* ------------- cache.c, read ahead and write behind threads ------------- *)
\* cache_read_async creates a thread and returns; the thread runs
\* cache_read_thread later.  All of it happens within one timer tick, and
\* cache_write stores zero bytes.  The history variable glast tells which call made
\* the last step and what its get_cache_entry met: whether the sector was in
\* an occupied slot, whether a slot was evicted, whether that slot was dirty.

NoStep == [call |-> "none", sector |-> 0, resident |-> FALSE, evicted |-> FALSE,
           dirty |-> FALSE]

AsyncFrame == UNCHANGED <<fma, opener, mallocs, frees, copier, rlast, xvars>>

\* SECTOR is in an occupied slot of c.
Resident(c, sector) == \E i \in Slots : ~c[i].free /\ c[i].sector = sector

\* What a step that calls get_cache_entry (sector) leaves in glast.
Met(call, sector) ==
  \E r \in {get_cache_entry(cache, disk, sector)} :
    glast' = [call |-> call, sector |-> sector, resident |-> Resident(cache, sector),
              evicted |-> r.how = "evict",
              dirty |-> r.how = "evict" /\ cache[r.entry].dirty]

\* cache_read_async (sector): malloc, thread_create, return.
cache_read_async(sector) ==
  /\ Cardinality(readahead) < MaxAhead
  /\ sector \notin readahead
  /\ readahead' = readahead \cup {sector}
  /\ glast' = [NoStep EXCEPT !.call = "cache_read_async", !.sector = sector]
  /\ UNCHANGED <<cvars, fvars, ivars, pass_writes>>
  /\ AsyncFrame

\* cache_read_thread (sector), run by a thread that cache_read_async created.
cache_read_thread(sector) ==
  /\ sector \in readahead
  /\ CacheReadThread(sector)
  /\ readahead' = readahead \ {sector}
  /\ Met("cache_read_thread", sector)
  /\ UNCHANGED pass_writes
  /\ AsyncFrame

\* cache_read and cache_write up to the return of get_cache_entry.
AsyncReadBegin(t, sector) ==
  /\ CacheReadBegin(t, sector, 0, BLOCK_SECTOR_SIZE)
  /\ Met("cache_read", sector)
  /\ UNCHANGED <<readahead, pass_writes>>
  /\ AsyncFrame

AsyncWriteBegin(t, sector, buffer) ==
  /\ CacheWriteBegin(t, sector, 0, BLOCK_SECTOR_SIZE, buffer)
  /\ Met("cache_write", sector)
  /\ UNCHANGED <<readahead, pass_writes>>
  /\ AsyncFrame

\* cache_read and cache_write from the memcpy on.
AsyncCopy(t) ==
  /\ CacheReadCopy(t) \/ CacheWriteCopy(t)
  /\ glast' = NoStep
  /\ UNCHANGED <<readahead, pass_writes>>
  /\ AsyncFrame

\* write_cache_to_disk, with its block_write calls counted.
AsyncWriterAcquire ==
  /\ WriterAcquire
  /\ pass_writes' = 0
  /\ glast' = NoStep
  /\ UNCHANGED readahead
  /\ AsyncFrame

AsyncWriterStep ==
  /\ WriterStep
  /\ pass_writes' = IF ~cache[wi].free /\ cache[wi].dirty THEN pass_writes + 1
                    ELSE pass_writes
  /\ glast' = NoStep
  /\ UNCHANGED readahead
  /\ AsyncFrame

AsyncWriterRelease ==
  /\ WriterRelease
  /\ pass_writes' = 0
  /\ glast' = NoStep
  /\ UNCHANGED readahead
  /\ AsyncFrame

(* --------------- inode.c, inode_deny_write and its callers -------------- *)
\* The openers of an inode follow the rule in the comments of inode.c: an
\* opener calls inode_deny_write at most once, and calls inode_allow_write
\* before it closes the inode.  denying counts, per inode, the openers that
\* have denied writes and not yet allowed them again.

DenyFrame ==
  UNCHANGED <<cvars, fm_last, held, junk, sect, hist, creates, writes, overrun,
              free_map, file_bits, free_map_file, fma, opener, mallocs, frees, copier,
              rlast, avars, yvars>>

\* inode_deny_write (inode), by an opener that has not denied writes yet.
inode_deny_write(e) ==
  /\ ~panicked /\ ~overrun
  /\ e \in 1 .. Len(open_inodes)
  /\ denying[open_inodes[e].sector] < open_inodes[e].open_cnt
  /\ open_inodes' = [open_inodes EXCEPT ![e].deny_write_cnt = @ + 1]
  /\ panicked' = ~(open_inodes[e].deny_write_cnt + 1 <= open_inodes[e].open_cnt)
  /\ denying' = [denying EXCEPT ![open_inodes[e].sector] = @ + 1]
  /\ ilast' = [NoInodeCall EXCEPT !.call = "inode_deny_write",
                                  !.sector = open_inodes[e].sector]
  /\ trail' = NoTrail
  /\ DenyFrame

\* inode_allow_write (inode), by an opener that has denied writes.
inode_allow_write(e) ==
  /\ ~panicked /\ ~overrun
  /\ e \in 1 .. Len(open_inodes)
  /\ denying[open_inodes[e].sector] > 0
  /\ IF open_inodes[e].deny_write_cnt > 0
        /\ open_inodes[e].deny_write_cnt <= open_inodes[e].open_cnt
       THEN /\ open_inodes' = [open_inodes EXCEPT ![e].deny_write_cnt = @ - 1]
            /\ panicked' = FALSE
       ELSE /\ panicked' = TRUE
            /\ UNCHANGED open_inodes
  /\ denying' = [denying EXCEPT ![open_inodes[e].sector] = @ - 1]
  /\ ilast' = [NoInodeCall EXCEPT !.call = "inode_allow_write",
                                  !.sector = open_inodes[e].sector]
  /\ trail' = NoTrail
  /\ DenyFrame

\* inode_close (inode) by an opener that is not denying writes.
DenyClose(e) ==
  /\ e \in 1 .. Len(open_inodes)
  /\ denying[open_inodes[e].sector] < open_inodes[e].open_cnt
  /\ inode_close(e)
  /\ UNCHANGED nvars

(* ------------------- syscall-file.c, file descriptors ------------------- *)
\* The fd_map of one process.  filesys_open either returns a file or NULL.

MIN_FD == 2

NoFdCall == [call |-> "none", fd |-> 0, before |-> {}]

FdFrame ==
  UNCHANGED <<cvars, fvars, ivars, fma, opener, mallocs, frees, copier, rlast, avars,
              denying>>

\* The for loop of create_fd from list position e on: the fd chosen and the
\* position of the element that e points to behind the loop (Len + 1: list_end).
RECURSIVE FdScan(_, _, _)
FdScan(list, e, fd) ==
  IF e > Len(list) THEN [fd |-> fd, e |-> e]
  ELSE IF fd # list[e] THEN [fd |-> fd, e |-> e + 1]
  ELSE FdScan(list, e + 1, fd + 1)

\* list_insert (e, elem): elem goes in front of the element at position e.
ListInsert(list, e, elem) ==
  SubSeq(list, 1, e - 1) \o <<elem>> \o SubSeq(list, e, Len(list))

\* get_file_descriptor (fd): the position of the first element with fd, 0 for NULL.
RECURSIVE get_file_descriptor(_, _, _)
get_file_descriptor(list, fd, e) ==
  IF e > Len(list) THEN 0
  ELSE IF list[e] = fd THEN e
  ELSE get_file_descriptor(list, fd, e + 1)

\* create_fd (file_name); opened tells whether filesys_open found the file.
create_fd(opened) ==
  /\ Len(fd_map) < MaxFds \/ ~opened
  /\ IF opened
       THEN \E r \in {FdScan(fd_map, 1, MIN_FD)} :
              /\ fd_map' = ListInsert(fd_map, r.e, r.fd)
              /\ fd_last' = [call |-> "create_fd", fd |-> r.fd, before |-> Range(fd_map)]
       ELSE /\ fd_last' = [call |-> "create_fd", fd |-> 0 - 1, before |-> Range(fd_map)]
            /\ UNCHANGED fd_map
  /\ FdFrame

\* close (fd)
close(fd) ==
  /\ IF get_file_descriptor(fd_map, fd, 1) # 0
       THEN fd_map' = ListRemove(fd_map, get_file_descriptor(fd_map, fd, 1))
       ELSE UNCHANGED fd_map
  /\ fd_last' = [call |-> "close", fd |-> fd, before |-> Range(fd_map)]
  /\ FdFrame

(* ------------- inode.c, sectors of more than one byte ------------------- *)
\* The functions of inode.c that count in bytes, with WideSectorSize bytes in a
\* sector: two lengths can then need the same number of sectors.  The part of
\* inode_disk_extend behind free_map_allocate (ExtendWith) counts in sectors
\* only.  Byte k of a data sector is cell k of the sector.

wide_bytes_to_data_sectors(size) == DivRoundUp(size, WideSectorSize)

wide_bytes_to_indirect_sectors(size) ==
  LET data_sectors_left == wide_bytes_to_data_sectors(size) IN
  IF data_sectors_left <= INODE_NUM_DBLOCKS
    THEN 0
    ELSE IF data_sectors_left - INODE_NUM_DBLOCKS <= INDBLOCK_NUM_CHILDREN
      THEN 1
      ELSE 2 + DivRoundUp(data_sectors_left - INODE_NUM_DBLOCKS - INDBLOCK_NUM_CHILDREN,
                          INDBLOCK_NUM_CHILDREN)

\* bytes_to_sectors that takes every byte for a sector.
wide_bytes_to_sectors_bytes(size) == size

wide_bytes_to_sectors(size) ==
  wide_bytes_to_data_sectors(size) + wide_bytes_to_indirect_sectors(size)

wide_inode_disk_extend(st, map, fbits, ino, new_length, file_open, write_ok, garbage) ==
  LET same == [ok |-> FALSE, ino |-> ino, st |-> st, map |-> map, fbits |-> fbits,
               alloc |-> "none", got |-> <<>>, halt |-> "none"]
  IN
  IF new_length < ino.length
    THEN same
    ELSE
      LET sectors_to_write ==
            wide_bytes_to_sectors(new_length) - wide_bytes_to_sectors(ino.length)
          data_sectors_to_write ==
            wide_bytes_to_data_sectors(new_length) - wide_bytes_to_data_sectors(ino.length)
          sector_ofs == wide_bytes_to_data_sectors(ino.length)
          ino1 == [ino EXCEPT !.length = new_length]
      IN
      IF sectors_to_write = 0
        THEN [same EXCEPT !.ok = TRUE, !.ino = ino1]
        ELSE ExtendWith(same, FreeMapAllocate(map, sectors_to_write, file_open, write_ok),
                        ino1, data_sectors_to_write, sector_ofs, garbage)

wide_byte_to_sector(st, ino, pos) ==
  LET sector_num == pos \div WideSectorSize
      in_ind == sector_num - INODE_NUM_DBLOCKS
      in_dbl == in_ind - INDBLOCK_NUM_CHILDREN
  IN
  IF sector_num < INODE_NUM_DBLOCKS
    THEN [panic |-> FALSE, sector |-> ino.dblocks[sector_num]]
    ELSE IF in_ind < INDBLOCK_NUM_CHILDREN
      THEN IF ino.indblock \in Dev
             THEN [panic |-> FALSE, sector |-> st[ino.indblock][in_ind]]
             ELSE [panic |-> TRUE, sector |-> None]
      ELSE IF in_dbl < DOUBLY_INDBLOCK_NUM_GRANDCHILDREN
        THEN IF ino.doubly_indblock \in Dev
               THEN LET child == st[ino.doubly_indblock][in_dbl \div INDBLOCK_NUM_CHILDREN]
                    IN IF child \in Dev
                         THEN [panic |-> FALSE,
                               sector |-> st[child][in_dbl % INDBLOCK_NUM_CHILDREN]]
                         ELSE [panic |-> TRUE, sector |-> None]
               ELSE [panic |-> TRUE, sector |-> None]
        ELSE [panic |-> FALSE, sector |-> None]

\* The while loop of inode_write_at.
RECURSIVE WideWriteLoop(_, _, _, _, _, _, _, _)
WideWriteLoop(st, ino, inode_sector, pat, size, offset, bytes_written, wrote) ==
  LET done == [halt |-> "none", st |-> st, bytes_written |-> bytes_written,
               wrote |-> wrote]
  IN
  IF size <= 0
    THEN done
    ELSE
      LET b == wide_byte_to_sector(st, ino, offset)
          sector_ofs == offset % WideSectorSize
          inode_left == inode_length(st, inode_sector) - offset
          sector_left == WideSectorSize - sector_ofs
          min_left == Min(inode_left, sector_left)
          chunk_size == Min(size, min_left)
      IN
      IF b.panic THEN [done EXCEPT !.halt = "panic"]
      ELSE IF chunk_size <= 0 THEN done
      ELSE IF b.sector \notin Dev THEN [done EXCEPT !.halt = "panic"]
      ELSE WideWriteLoop(StoreData(st, b.sector, sector_ofs,
                                   [k \in 1 .. chunk_size |->
                                      Pattern(pat, bytes_written + k - 1)]),
                         ino, inode_sector, pat, size - chunk_size, offset + chunk_size,
                         bytes_written + chunk_size, wrote \cup {b.sector})

\* filesys_create (name, initial_size) in a directory that has room.
wide_filesys_create(initial_size) ==
  /\ ~panicked /\ ~overrun
  /\ creates < MaxFiles
  /\ creates' = creates + 1
  /\ UNCHANGED <<open_inodes, free_map_file, writes, trail>>
  /\ UNCHANGED <<cvars, fm_last, held, junk>>
  /\ \E a \in {FreeMapAllocate(free_map, 1, TRUE, TRUE)} :
       IF ~a.ok
         THEN /\ free_map' = a.map
              /\ ilast' = [NoInodeCall EXCEPT !.call = "filesys_create", !.ok = FALSE,
                                              !.size = initial_size, !.alloc = "failed",
                                              !.before = free_map]
              /\ UNCHANGED <<file_bits, sect, hist, panicked, overrun>>
         ELSE
           \E c \in {InodeCreated(
                       wide_inode_disk_extend(sect, a.map, a.map,
                                              [ZeroInode EXCEPT !.magic = INODE_MAGIC],
                                              initial_size, TRUE, TRUE, junk),
                       a.sectorp[1])} :
             LET inode_sector == a.sectorp[1]
                 success == c.ret
                 undo == ~success /\ inode_sector # 0 /\ c.ext.halt # "panic"
                 assert_ok == ReleaseAssert(c.ext.map, inode_sector, 1)
                 map1 == IF undo /\ assert_ok THEN ReleaseBits(c.ext.map, inode_sector, 1)
                         ELSE c.ext.map
             IN /\ free_map' = map1
                /\ file_bits' = IF undo /\ assert_ok THEN map1 ELSE c.ext.fbits
                /\ sect' = c.st
                /\ panicked' = (c.ext.halt = "panic" \/ (undo /\ ~assert_ok))
                /\ overrun' = (c.ext.halt = "overrun")
                /\ hist' = IF success
                             THEN [hist EXCEPT ![inode_sector] =
                                     [live |-> TRUE, clean |-> c.ext.ok, got |-> c.ext.got,
                                      born |-> IF c.ext.ok THEN initial_size ELSE None]]
                             ELSE hist
                /\ ilast' = [NoInodeCall EXCEPT
                               !.call = "inode_create", !.sector = inode_sector,
                               !.size = initial_size, !.ok = c.ret, !.alloc = c.ext.alloc,
                               !.got = c.ext.got, !.before = a.map,
                               !.image = sect[inode_sector], !.halt = c.ext.halt]

\* inode_write_at (inode, buffer, size, offset); the buffer holds Pattern (pat, .)
wide_inode_write_at(e, size, offset, pat) ==
  /\ ~panicked /\ ~overrun
  /\ e \in 1 .. Len(open_inodes)
  /\ offset + size <= MaxLen
  /\ writes < MaxWideWrites
  /\ writes' = writes + 1
  /\ LET inode == open_inodes[e]
         inode_disk == inode_get_data(sect, inode.sector)
         denied == Denied(inode)
     IN
     \E x \in {wide_inode_disk_extend(sect, free_map, file_bits, inode_disk, offset + size,
                                      TRUE, TRUE, junk)} :
     \E w \in {IF x.halt = "panic"
                 THEN [halt |-> "panic", st |-> x.st, bytes_written |-> 0, wrote |-> {}]
                 ELSE WideWriteLoop(IF x.ok
                                      THEN [x.st EXCEPT
                                              ![inode.sector] = inode_disk_image(x.ino)]
                                      ELSE x.st,
                                    x.ino, inode.sector, pat, size, offset, 0, {})} :
        /\ sect' = IF denied THEN sect ELSE w.st
        /\ free_map' = IF denied THEN free_map ELSE x.map
        /\ file_bits' = IF denied THEN file_bits ELSE x.fbits
        /\ panicked' = (~denied /\ w.halt = "panic")
        /\ overrun' = (~denied /\ x.halt = "overrun")
        /\ hist' = IF denied THEN hist
                   ELSE [hist EXCEPT
                           ![inode.sector].clean = @ /\ x.alloc # "failed",
                           ![inode.sector].got = @ \o x.got,
                           ![inode.sector].born = None]
        /\ ilast' = [NoInodeCall EXCEPT
                       !.call = "inode_write_at", !.sector = inode.sector,
                       !.size = size, !.offset = offset,
                       !.ret = IF denied THEN 0 ELSE w.bytes_written,
                       !.ok = x.ok, !.alloc = IF denied THEN "none" ELSE x.alloc,
                       !.got = x.got, !.before = free_map,
                       !.image = sect[inode.sector],
                       !.wrote = w.wrote, !.halt = w.halt]
  /\ UNCHANGED <<open_inodes, creates, free_map_file, trail>>
  /\ UNCHANGED <<cvars, fm_last, held, junk>>

(* -------------------------- specifications ----------------------------- *)

\* No thread is inside a function that is followed statement by statement.
NoneInside ==
  /\ fma = [t \in Allocators |-> NotAllocating]
  /\ opener = [t \in Openers |-> NotOpening]
  /\ mallocs = 0
  /\ frees = [p \in 1 .. MaxInodes |-> 0]
  /\ copier = [t \in Copiers |-> NotCopying]
  /\ rlast = NoRead
  /\ readahead = {}
  /\ glast = NoStep
  /\ pass_writes = 0
  /\ denying = [s \in Dev |-> 0]
  /\ fd_map = <<>>
  /\ fd_last = NoFdCall

Init ==
  /\ cache = cache_init
  /\ disk = [s \in Sectors |-> [b \in Offsets |-> 1]]
  /\ ticks = 0
  /\ cache_lock = "free"
  /\ pc = [t \in Threads |-> "idle"]
  /\ op = [t \in Threads |-> NoOp]
  /\ wi = -1
  /\ written = [s \in Sectors |-> [b \in Offsets |-> None]]
  /\ coherent = TRUE
  /\ fresh = {}
  /\ resolves = 0
  /\ seen = {}
  /\ evictions = 0
  /\ victim_ok = TRUE
  /\ free_map = free_map_init
  /\ free_map_file = "null"
  /\ file_bits = free_map_init
  /\ panicked = FALSE
  /\ fm_last = NoCall
  /\ held = {}
  /\ sect = RawDevice(0)
  /\ open_inodes = <<>>
  /\ hist = [s \in Dev |-> NoHist]
  /\ ilast = NoInodeCall
  /\ trail = NoTrail
  /\ creates = 0
  /\ writes = 0
  /\ overrun = FALSE
  /\ junk = 0
  /\ NoneInside

Next ==
  \/ \E t \in Threads, sector \in Sectors, sector_ofs \in Offsets :
       \E size \in 1 .. BLOCK_SECTOR_SIZE :
         CacheReadBegin(t, sector, sector_ofs, size) /\ UNCHANGED nvars
  \/ \E t \in Threads : CacheReadCopy(t) /\ UNCHANGED nvars
  \/ \E t \in Threads, sector \in Sectors, sector_ofs \in Offsets :
       \E size \in 1 .. BLOCK_SECTOR_SIZE :
         \E buffer \in [0 .. (size - 1) -> Bytes] :
           CacheWriteBegin(t, sector, sector_ofs, size, buffer) /\ UNCHANGED nvars
  \/ \E t \in Threads : CacheWriteCopy(t) /\ UNCHANGED nvars
  \/ \E sector \in Sectors : CacheReadThread(sector) /\ UNCHANGED nvars
  \/ WriterAcquire /\ UNCHANGED nvars
  \/ WriterStep /\ UNCHANGED nvars
  \/ WriterRelease /\ UNCHANGED nvars
  \/ Tick /\ UNCHANGED nvars

Spec == Init /\ [][Next]_vars

FreeMapNext ==
  \/ FreeMapCreate /\ UNCHANGED nvars
  \/ FreeMapClose /\ UNCHANGED nvars
  \/ FreeMapOpen /\ UNCHANGED nvars
  \/ \E cnt \in 0 .. MaxCnt, write_ok \in BOOLEAN :
       free_map_allocate(cnt, write_ok) /\ UNCHANGED nvars
  \/ \E sector \in Bits, cnt \in 1 .. MaxCnt :
       free_map_release(sector, cnt) /\ UNCHANGED nvars

SpecFreeMap == Init /\ [][FreeMapNext]_vars

\* The inode layer after filesys_init (true), on a fresh or a used device.
InitInode ==
  /\ cache = cache_init
  /\ disk = [s \in Sectors |-> [b \in Offsets |-> 1]]
  /\ ticks = 0
  /\ cache_lock = "free"
  /\ pc = [t \in Threads |-> "idle"]
  /\ op = [t \in Threads |-> NoOp]
  /\ wi = -1
  /\ written = [s \in Sectors |-> [b \in Offsets |-> None]]
  /\ coherent = TRUE
  /\ fresh = {}
  /\ resolves = 0
  /\ seen = {}
  /\ evictions = 0
  /\ victim_ok = TRUE
  /\ junk \in {0, Wild}
  /\ \E f \in {Formatted(junk)} :
       /\ sect = f.st
       /\ free_map = f.ext.map
       /\ file_bits = f.ext.map
  /\ free_map_file = "open"
  /\ panicked = FALSE
  /\ fm_last = NoCall
  /\ held = {}
  /\ open_inodes = <<>>
  /\ hist = [s \in Dev |-> NoHist]
  /\ ilast = NoInodeCall
  /\ trail = NoTrail
  /\ creates = 0
  /\ writes = 0
  /\ overrun = FALSE
  /\ NoneInside

InodeNext ==
  \/ \E initial_size \in 0 .. MaxLen : filesys_create(initial_size) /\ UNCHANGED nvars
  \/ \E sector \in Dev : inode_open(sector) /\ UNCHANGED nvars
  \/ \E e \in 1 .. (MaxFiles * MaxOpen) : inode_remove(e) /\ UNCHANGED nvars
  \/ \E e \in 1 .. (MaxFiles * MaxOpen) : inode_close(e) /\ UNCHANGED nvars
  \/ \E e \in 1 .. (MaxFiles * MaxOpen), size \in 0 .. Wild, offset \in 0 .. MaxReadOfs :
       inode_read_at(e, size, offset) /\ UNCHANGED nvars
  \/ \E e \in 1 .. (MaxFiles * MaxOpen), size \in 1 .. MaxLen, offset \in 0 .. MaxLen,
        pat \in 1 .. MaxByte :
       inode_write_at(e, size, offset, pat) /\ UNCHANGED nvars

SpecInode == InitInode /\ [][InodeNext]_vars

\* The mounted free map (free_map_create and free_map_open done) and the
\* threads that call free_map_allocate without a lock.
InitAllocate ==
  /\ cache = cache_init
  /\ disk = [s \in Sectors |-> [b \in Offsets |-> 1]]
  /\ ticks = 0
  /\ cache_lock = "free"
  /\ pc = [t \in Threads |-> "idle"]
  /\ op = [t \in Threads |-> NoOp]
  /\ wi = -1
  /\ written = [s \in Sectors |-> [b \in Offsets |-> None]]
  /\ coherent = TRUE
  /\ fresh = {}
  /\ resolves = 0
  /\ seen = {}
  /\ evictions = 0
  /\ victim_ok = TRUE
  /\ free_map = FreeMapAllocate(free_map_init, 1, FALSE, TRUE).map
  /\ free_map_file = "open"
  /\ file_bits = FreeMapAllocate(free_map_init, 1, FALSE, TRUE).map
  /\ panicked = FALSE
  /\ fm_last = NoCall
  /\ held = {}
  /\ sect = RawDevice(0)
  /\ open_inodes = <<>>
  /\ hist = [s \in Dev |-> NoHist]
  /\ ilast = NoInodeCall
  /\ trail = NoTrail
  /\ creates = 0
  /\ writes = 0
  /\ overrun = FALSE
  /\ junk = 0
  /\ NoneInside

AllocateNext ==
  \/ \E t \in Allocators, cnt \in 0 .. MaxCnt : AllocateCall(t, cnt)
  \/ \E t \in Allocators : AllocateTest(t)
  \/ \E t \in Allocators : AllocateMark(t)
  \/ \E t \in Allocators, write_ok \in BOOLEAN : AllocateWrite(t, write_ok)
  \/ \E t \in Allocators : AllocateFail(t)

SpecAllocate == InitAllocate /\ [][AllocateNext]_vars

\* A mounted file system with one file of one sector, made by filesys_create
\* (BLOCK_SECTOR_SIZE), which no thread has opened yet.
FirstFile(f) ==
  inode_create(f.st, FreeMapAllocate(f.ext.map, 1, TRUE, TRUE).map,
               FreeMapAllocate(f.ext.map, 1, TRUE, TRUE).map,
               FreeMapAllocate(f.ext.map, 1, TRUE, TRUE).sectorp[1],
               BLOCK_SECTOR_SIZE, 0, TRUE, TRUE, 0)

FirstFileSector == FreeMapAllocate(Formatted(0).ext.map, 1, TRUE, TRUE).sectorp[1]

InitOpeners ==
  /\ cache = cache_init
  /\ disk = [s \in Sectors |-> [b \in Offsets |-> 1]]
  /\ ticks = 0
  /\ cache_lock = "free"
  /\ pc = [t \in Threads |-> "idle"]
  /\ op = [t \in Threads |-> NoOp]
  /\ wi = -1
  /\ written = [s \in Sectors |-> [b \in Offsets |-> None]]
  /\ coherent = TRUE
  /\ fresh = {}
  /\ resolves = 0
  /\ seen = {}
  /\ evictions = 0
  /\ victim_ok = TRUE
  /\ junk = 0
  /\ \E c \in {FirstFile(Formatted(0))} :
       /\ sect = c.st
       /\ free_map = c.ext.map
       /\ file_bits = c.ext.fbits
       /\ hist = [s \in Dev |->
                    IF s = FirstFileSector
                      THEN [live |-> TRUE, clean |-> TRUE, got |-> c.ext.got,
                            born |-> BLOCK_SECTOR_SIZE]
                      ELSE NoHist]
  /\ free_map_file = "open"
  /\ panicked = FALSE
  /\ fm_last = NoCall
  /\ held = {}
  /\ open_inodes = <<>>
  /\ ilast = NoInodeCall
  /\ trail = NoTrail
  /\ creates = 1
  /\ writes = 0
  /\ overrun = FALSE
  /\ NoneInside

OpenersNext ==
  \/ \E t \in Openers, sector \in Dev : InodeOpenScan(t, sector)
  \/ \E t \in Openers : InodeOpenPush(t)
  \/ \E t \in Openers, k \in 1 .. MaxOpen : InodeReopen(t, k)
  \/ \E t \in Openers, k \in 1 .. MaxOpen : InodeRemove(t, k)
  \/ \E t \in Openers, k \in 1 .. MaxOpen : InodeClose(t, k)

SpecOpeners == InitOpeners /\ [][OpenersNext]_vars

\* cache_init on a device of sectors of CopyBytes zero bytes.
InitCopy ==
  /\ cache = [i \in Slots |-> [cache_init[i] EXCEPT !.data = [b \in CopyOffsets |-> 0]]]
  /\ disk = [s \in Sectors |-> [b \in CopyOffsets |-> 0]]
  /\ ticks = 0
  /\ cache_lock = "free"
  /\ pc = [t \in Threads |-> "idle"]
  /\ op = [t \in Threads |-> NoOp]
  /\ wi = -1
  /\ written = [s \in Sectors |-> [b \in Offsets |-> None]]
  /\ coherent = TRUE
  /\ fresh = {}
  /\ resolves = 0
  /\ seen = {}
  /\ evictions = 0
  /\ victim_ok = TRUE
  /\ free_map = free_map_init
  /\ free_map_file = "null"
  /\ file_bits = free_map_init
  /\ panicked = FALSE
  /\ fm_last = NoCall
  /\ held = {}
  /\ sect = RawDevice(0)
  /\ open_inodes = <<>>
  /\ hist = [s \in Dev |-> NoHist]
  /\ ilast = NoInodeCall
  /\ trail = NoTrail
  /\ creates = 0
  /\ writes = 0
  /\ overrun = FALSE
  /\ junk = 0
  /\ NoneInside

\* Every cache_write stores one byte value into the whole sector.
CopyNext ==
  \/ \E t \in Copiers, sector \in CopySectors : CopyReadBegin(t, sector)
  \/ \E t \in Copiers : CopyReadByte(t)
  \/ \E t \in Copiers : CopyReadEnd(t)
  \/ \E t \in Copiers, sector \in CopySectors, v \in Bytes :
       CopyWriteBegin(t, sector, [k \in 1 .. CopyBytes |-> v])
  \/ \E t \in Copiers : CopyWriteByte(t)
  \/ \E t \in Copiers : CopyWriteEnd(t)

SpecCopy == InitCopy /\ [][CopyNext]_vars

AsyncNext ==
  \/ \E sector \in Sectors : cache_read_async(sector)
  \/ \E sector \in Sectors : cache_read_thread(sector)
  \/ \E t \in Threads, sector \in Sectors : AsyncReadBegin(t, sector)
  \/ \E t \in Threads, sector \in Sectors : AsyncWriteBegin(t, sector, ZeroSector)
  \/ \E t \in Threads : AsyncCopy(t)
  \/ AsyncWriterAcquire
  \/ AsyncWriterStep
  \/ AsyncWriterRelease

SpecAsync == Init /\ [][AsyncNext]_vars

DenyNext ==
  \/ \E initial_size \in 0 .. MaxLen : filesys_create(initial_size) /\ UNCHANGED nvars
  \/ \E sector \in Dev : inode_open(sector) /\ UNCHANGED nvars
  \/ \E e \in 1 .. (MaxFiles * MaxOpen) : inode_deny_write(e)
  \/ \E e \in 1 .. (MaxFiles * MaxOpen) : inode_allow_write(e)
  \/ \E e \in 1 .. (MaxFiles * MaxOpen) : DenyClose(e)
  \/ \E e \in 1 .. (MaxFiles * MaxOpen), size \in 1 .. MaxLen, offset \in 0 .. MaxLen,
        pat \in 1 .. MaxByte :
       inode_write_at(e, size, offset, pat) /\ UNCHANGED nvars

SpecDeny == InitInode /\ [][DenyNext]_vars

FdNext ==
  \/ \E opened \in BOOLEAN : create_fd(opened)
  \/ \E fd \in 0 .. (MIN_FD + MaxFds) : close(fd)

SpecFd == Init /\ [][FdNext]_vars

WideNext ==
  \/ \E initial_size \in 0 .. MaxLen : wide_filesys_create(initial_size) /\ UNCHANGED nvars
  \/ \E sector \in Dev : inode_open(sector) /\ UNCHANGED nvars
  \/ \E e \in 1 .. (MaxFiles * MaxOpen), size \in 0 .. MaxLen, offset \in 0 .. MaxLen,
        pat \in Bytes :
       wide_inode_write_at(e, size, offset, pat) /\ UNCHANGED nvars

SpecWide == InitInode /\ [][WideNext]_vars

(* ------------------------------- claims -------------------------------- *)

\* C1: cache coherence.  A cache_read of a sector issued after a cache_write to
\* it returns the bytes written, from every reachable state of the cache and for
\* every sector, sector 0 included.
C1_Coherence == coherent

\* C2: no two occupied slots hold the same sector address.
C2_UniqueSectors ==
  \A i, j \in Slots :
    (i # j /\ ~cache[i].free /\ ~cache[j].free) => cache[i].sector # cache[j].sector

\* Every slot is occupied and a slot has been evicted and bound again.
C2_Witness ==
  /\ \A i \in Slots : ~cache[i].free
  /\ evictions >= 1

\* C3: an eviction takes the slot with the smallest last_accessed_tick, the
\* lowest index among equals, and resolving CACHE_NUM_SECTORS + 1 distinct
\* sectors from the empty cache makes exactly one eviction.
C3_Eviction ==
  /\ victim_ok
  /\ (resolves = CACHE_NUM_SECTORS + 1 /\ Cardinality(seen) = CACHE_NUM_SECTORS + 1)
       => evictions = 1

\* C4: when the loop of a flush pass has ended (the lock still held), no occupied
\* slot is dirty and the device holds the data of every occupied slot.
C4_FlushLeavesClean ==
  wi = CACHE_NUM_SECTORS =>
    \A i \in Slots :
      ~cache[i].free => (~cache[i].dirty /\ disk[cache[i].sector] = cache[i].data)

\* C5: write-behind.  The bytes a cache_write stored are on the device, at the
\* sector written, when the next flush pass of the background writer has ended
\* (sectors written again while that pass ran wait for the pass after it).
C5_WriteBehind ==
  wi = CACHE_NUM_SECTORS =>
    \A s \in Sectors \ fresh : \A b \in Offsets :
      written[s][b] # None => disk[s][b] = written[s][b]

\* C6: allocator exclusivity.  A successful free_map_allocate returns pairwise
\* distinct sectors, none of which an earlier successful call returned and
\* nobody released since.
C6_Exclusive ==
  (fm_last.call = "allocate" /\ fm_last.ok) =>
    /\ fm_last.reused = {}
    /\ Cardinality(Range(fm_last.sectorp)) = Len(fm_last.sectorp)

\* C7: allocator atomicity.  A free_map_allocate that returned false left every
\* bit of the bitmap as it was before the call.
C7_Atomic ==
  (fm_last.call = "allocate" /\ ~fm_last.ok) => free_map = fm_last.before

\* C8: the two reserved sectors are marked by free_map_init, stay marked (nobody
\* releases them), and free_map_allocate never returns them.
C8_Reserved ==
  /\ free_map[FREE_MAP_SECTOR]
  /\ free_map[ROOT_DIR_SECTOR]
  /\ (fm_last.call = "allocate" /\ fm_last.ok) =>
       Range(fm_last.sectorp) \cap {FREE_MAP_SECTOR, ROOT_DIR_SECTOR} = {}

\* C9: after every free_map_allocate or free_map_release that returned, the
\* bitmap in the backing file equals the bitmap in memory.
C9_Persisted ==
  (/\ free_map_file = "open"
   /\ \/ fm_last.call = "allocate"
      \/ (fm_last.call = "release" /\ ~panicked))
    => file_bits = free_map

\* C10: free_map_release on a range with an unmarked sector fails its assertion
\* and clears no bit; on a range fully marked it clears those bits and no other.
C10_Release ==
  fm_last.call = "release" =>
    LET range == fm_last.sector .. (fm_last.sector + fm_last.cnt - 1) IN
    IF \E i \in range : ~fm_last.before[i]
      THEN panicked /\ free_map = fm_last.before
      ELSE /\ ~panicked
           /\ \A i \in Bits : free_map[i] = (fm_last.before[i] /\ i \notin range)

\* A release of several sectors, some marked and one not, has hit the assertion.
C10_Witness ==
  /\ panicked
  /\ fm_last.call = "release"
  /\ fm_last.cnt >= 2
  /\ \E i \in fm_last.sector .. (fm_last.sector + fm_last.cnt - 1) : fm_last.before[i]

\* How often x occurs in seq.
Count(seq, x) == Cardinality({k \in 1 .. Len(seq) : seq[k] = x})

\* C11: inode round trip.  After inode_create (sector, L) whose allocation
\* succeeded, inode_open (sector) and inode_read_at (handle, buf, L, 0) return
\* L bytes, all of them zero.
C11_RoundTrip ==
  trail.stage = "read" =>
    /\ ~panicked
    /\ ilast.ret = trail.length
    /\ \A k \in 1 .. Len(ilast.bytes) : ilast.bytes[k] = 0

\* C12: extension monotonicity.  For an inode all of whose extensions, from
\* length 0 on, succeeded, the sectors obtained from the allocator number
\* data_sectors (length) + index_sectors (length), each of them is linked into
\* the pointer structure exactly once, and none was obtained twice.
C12_ExtendLinks ==
  \A s \in Dev :
    (hist[s].live /\ hist[s].clean /\ ~panicked) =>
      LET ino == inode_get_data(sect, s)
          links == Links(sect, ino)
      IN /\ Len(hist[s].got)
              = bytes_to_data_sectors(ino.length) + bytes_to_indirect_sectors(ino.length)
         /\ \A x \in Range(hist[s].got) :
              Count(links, x) = 1 /\ Count(hist[s].got, x) = 1

\* C13: for every inode on disk the pointers of its structure lead to
\* data_sectors (length) + index_sectors (length) distinct sectors, each marked
\* in the bitmap, and every sector marked in the bitmap is an inode or is
\* reached from one (the sectors made by do_format aside).
C13_Indexed ==
  /\ \A s \in Dev :
       hist[s].live =>
         LET links == Links(sect, inode_get_data(sect, s)) IN
           /\ \A k \in 1 .. Len(links) : links[k] \in Dev /\ free_map[links[k]]
           /\ Cardinality(Range(links)) = Len(links)
  /\ \A b \in Dev :
       free_map[b] =>
         \/ b \in FormatSectors
         \/ hist[b].live
         \/ \E s \in Dev :
              hist[s].live /\ b \in Range(Links(sect, inode_get_data(sect, s)))

\* C14: teardown completeness.  After filesys_create, inode_open, inode_remove
\* and the final inode_close the bitmap is what it was before the inode's
\* sector was allocated, and the close released bytes_to_sectors (length) + 1
\* sectors.
C14_Teardown ==
  trail.stage = "closed" =>
    /\ ~panicked
    /\ free_map = trail.before
    /\ Len(ilast.released) = bytes_to_sectors(trail.length) + 1

C17_ReleaseOnLastClose ==
  /\ ilast.call = "inode_remove" =>
       free_map = ilast.before /\ sect[ilast.sector] = ilast.image
  /\ (ilast.call = "inode_close" /\ ~(ilast.last /\ ilast.removed)) =>
       free_map = ilast.before /\ sect[ilast.sector] = ilast.image
  /\ (ilast.call = "inode_close" /\ ilast.last /\ ilast.removed) =>
       /\ ~panicked
       /\ ~free_map[ilast.sector]
       /\ \A x \in ilast.owned \cap Dev : ~free_map[x]
  /\ ilast.call \in {"filesys_create", "inode_create", "inode_write_at"} =>
       \A b \in Dev : ilast.before[b] => free_map[b]

\* C18: an inode_write_at whose extension the allocator could not supply leaves
\* the inode record on disk (length and pointers) and the bitmap as they were.
C18_FailedExtension ==
  (ilast.call = "inode_write_at" /\ ilast.alloc = "failed") =>
    /\ sect[ilast.sector] = ilast.image
    /\ free_map = ilast.before

\* C19: inode_create returns false when the allocation for length fails, and
\* returns true only when the sector holds an inode record with the magic, the
\* length asked for, and pointers to sectors marked in the bitmap.
C19_CreateResult ==
  ilast.call = "inode_create" =>
    /\ ilast.alloc = "failed" => ~ilast.ok
    /\ ilast.ok =>
         LET ino == inode_get_data(sect, ilast.sector)
             links == Links(sect, ino)
         IN /\ ino.magic = INODE_MAGIC
            /\ ino.length = ilast.size
            /\ \A k \in 1 .. Len(links) : links[k] \in Dev /\ free_map[links[k]]

\* C20: an inode_write_at whose extension fails returns the number of bytes of
\* the request that lie inside the previous length (0 when offset is at or past
\* it) and stores into no sector that the inode did not own before.
C20_FailedWrite ==
  (ilast.call = "inode_write_at" /\ ilast.alloc = "failed") =>
    /\ ~panicked
    /\ ilast.ret = Max(0, Min(ilast.size, ilast.image[0] - ilast.offset))
    /\ ilast.wrote \subseteq ilast.owned

\* C25: a slot that get_cache_entry returned to a caller is occupied: a slot
\* still unassigned (free, as every slot is after cache_init) is never returned
\* as a hit, for no sector.
C25_HitOccupied ==
  \A t \in Threads : pc[t] = "copy" => ~cache[op[t].entry].free

\* C28: while a thread is between the return of get_cache_entry for sector S
\* and the end of its memcpy, dirty-flag and timestamp update, the slot it was
\* given is still bound to S.
C28_StillBound ==
  \A t \in Threads : pc[t] = "copy" => cache[op[t].entry].sector = op[t].sector

\* C29: teardown releases the inode's own sector last: in the inode_close that
\* tears a removed inode down, inode->sector is the last sector released.
C29_OwnSectorLast ==
  (ilast.call = "inode_close" /\ ilast.last /\ ilast.removed /\ ~panicked) =>
    /\ Len(ilast.released) >= 1
    /\ ilast.released[Len(ilast.released)] = ilast.sector

\* C30: teardown releases only sectors the inode owns (its own sector and those
\* its pointer structure leads to), each once, and does not stop in the
\* assertion of free_map_release, whatever the length of the file.
C30_OwnedOnce ==
  (ilast.call = "inode_close" /\ ilast.last /\ ilast.removed) =>
    /\ ~panicked
    /\ Range(ilast.released) \subseteq (ilast.owned \cup {ilast.sector})
    /\ Cardinality(Range(ilast.released)) = Len(ilast.released)

\* C24: when two threads run free_map_allocate at the same time with no lock
\* taken by their callers and both calls return true, the sectors stored for
\* the one and the sectors stored for the other are disjoint.
C24_ConcurrentDisjoint ==
  \A t, u \in Allocators :
    (t # u /\ fma[t].at = "returned" /\ fma[t].ret
           /\ fma[u].at = "returned" /\ fma[u].ret) =>
      Range(fma[t].sectorp) \cap Range(fma[u].sectorp) = {}

\* The pointers to struct inode objects of SECTOR that threads hold.
References(sector) ==
  {<<t, k>> \in Openers \X (1 .. MaxOpen) :
     /\ k <= Len(opener[t].held)
     /\ \E e \in 1 .. Len(open_inodes) :
          open_inodes[e].ptr = opener[t].held[k] /\ open_inodes[e].sector = sector}

\* C23: under every interleaving of inode_open, inode_reopen, inode_close and
\* inode_remove by several threads on one sector, the open_cnt of the sector's
\* handle is the number of references threads hold on it, a handle is freed at
\* most once and only when nobody holds a pointer to it, and open_inodes never
\* holds two handles of one sector.
C23_Handles ==
  /\ \A e \in 1 .. Len(open_inodes) :
       open_inodes[e].open_cnt = Cardinality(References(open_inodes[e].sector))
  /\ \A p \in 1 .. MaxInodes :
       /\ frees[p] <= 1
       /\ frees[p] = 1 => \A t \in Openers : p \notin Range(opener[t].held)
  /\ \A i, j \in 1 .. Len(open_inodes) :
       i # j => open_inodes[i].sector # open_inodes[j].sector

\* C22: with several threads in cache_read and cache_write on one sector, the
\* bytes a cache_read returns are the slot's bytes before or after each
\* concurrent cache_write, never some bytes of the one and some of the other.
C22_NoTornRead ==
  rlast.done => rlast.buffer \in rlast.ok

\* C21: cache_read_async (sector) returns without taking cache_lock and without
\* device I/O: the step leaves the cache, the device and the lock as they were;
\* and when the sector is in an occupied slot, the cache_read_thread it started
\* changes neither a slot (no eviction, no rebinding, data and dirty flag kept)
\* nor the device.
C21_AsyncQuiet ==
  [][/\ (readahead' # readahead /\ readahead \subseteq readahead') =>
          UNCHANGED <<cache, disk, cache_lock>>
     /\ \A sector \in Sectors :
          (sector \in readahead /\ sector \notin readahead' /\ Resident(cache, sector)) =>
            UNCHANGED <<cache, disk>>]_vars

C21_Witness ==
  /\ glast.call = "cache_read_thread"
  /\ glast.resident
  /\ \E i \in Slots : ~cache[i].free /\ cache[i].sector = glast.sector /\ cache[i].dirty

\* C26: when get_cache_entry evicts a slot, a dirty victim's data are on the
\* device at the victim's old sector and the rest of the device is as before, a
\* clean victim leaves the device untouched, and afterwards the slot is clean and
\* holds what the device holds at the new sector.
C26_EvictionOrder ==
  [][\A i \in Slots :
       (~cache[i].free /\ cache'[i].sector # cache[i].sector) =>
         /\ disk' = IF cache[i].dirty
                      THEN [disk EXCEPT ![cache[i].sector] = cache[i].data]
                      ELSE disk
         /\ ~cache'[i].dirty
         /\ cache'[i].data = disk'[cache'[i].sector]]_vars

C26_Witness ==
  /\ glast.evicted
  /\ glast.dirty
  /\ \E s \in Sectors : disk[s] = ZeroSector

\* C27: between a lock_acquire and the lock_release that follows it,
\* write_cache_to_disk writes at most one sector to the device.
C27_OneTransfer ==
  pass_writes <= 1

\* C37: inode_read_at (inode, buffer, size, offset) returns
\* min (size, max (0, length - offset)) bytes and touches no sector past the
\* data sectors of the length: the kernel does not halt in it, and a read at or
\* past the length returns 0.
C37_ReadCount ==
  ilast.call = "inode_read_at" =>
    /\ ~panicked
    /\ ilast.ret = Min(ilast.size,
                       Max(0, inode_length(sect, ilast.sector) - ilast.offset))

\* The translation of a byte offset that the file system's description gives,
\* with D direct pointers and C entries per index block.
Translate(st, ino, offset) ==
  LET s == offset \div BLOCK_SECTOR_SIZE
      D == INODE_NUM_DBLOCKS
      C == INDBLOCK_NUM_CHILDREN
  IN IF s < D THEN ino.dblocks[s]
     ELSE IF s < D + C THEN st[ino.indblock][s - D]
     ELSE IF s < D + C + C * C
       THEN st[st[ino.doubly_indblock][(s - D - C) \div C]][(s - D - C) % C]
     ELSE None

\* The index blocks that Translate goes through are sectors of the device.
Translatable(st, ino, offset) ==
  LET s == offset \div BLOCK_SECTOR_SIZE
      D == INODE_NUM_DBLOCKS
      C == INDBLOCK_NUM_CHILDREN
  IN IF s < D THEN TRUE
     ELSE IF s < D + C THEN ino.indblock \in Dev
     ELSE IF s < D + C + C * C
       THEN /\ ino.doubly_indblock \in Dev
            /\ st[ino.doubly_indblock][(s - D - C) \div C] \in Dev
     ELSE TRUE

C34_NoShrink ==
  /\ \A i \in Dev :
       hist[i].live =>
         \A new_length \in 0 .. Min(MaxLen, inode_length(sect, i)) :
           \E x \in {inode_disk_extend(sect, free_map, file_bits, inode_get_data(sect, i),
                                       new_length, TRUE, TRUE, junk)} :
             /\ x.alloc = "none"
             /\ x.got = <<>>
             /\ x.map = free_map
             /\ x.ino = inode_get_data(sect, i)
             /\ x.st = sect
  /\ (ilast.call = "inode_write_at" /\ ilast.offset + ilast.size <= ilast.image[0]) =>
       /\ ilast.alloc = "none"
       /\ free_map = ilast.before
       /\ sect[ilast.sector] = ilast.image

\* A write that ended inside the file has stored all its bytes.
C34_Witness ==
  /\ ilast.call = "inode_write_at"
  /\ ilast.offset + ilast.size <= ilast.image[0]
  /\ ilast.ret = ilast.size
  /\ ilast.ret > 0
  /\ ~panicked

\* C38: while deny_write_cnt of an inode is above 0, inode_write_at on it
\* returns 0 and changes nothing: the device, the bitmap and its file, the
\* open inodes stay as they are.
C38_DeniedWrite ==
  [][(/\ writes' # writes
      /\ \E e \in 1 .. Len(open_inodes) :
           open_inodes[e].sector = ilast'.sector /\ open_inodes[e].deny_write_cnt > 0) =>
       /\ ilast'.ret = 0
       /\ UNCHANGED <<sect, free_map, file_bits, open_inodes, panicked, overrun>>]_vars

\* A write of some bytes to an inode whose writes are denied has returned.
C38_Witness ==
  /\ ilast.call = "inode_write_at"
  /\ ilast.size > 0
  /\ ilast.offset + ilast.size > ilast.image[0]
  /\ \E e \in 1 .. Len(open_inodes) :
       open_inodes[e].sector = ilast.sector /\ open_inodes[e].deny_write_cnt > 0

\* C39: when every opener calls inode_deny_write at most once and calls
\* inode_allow_write before it closes, 0 <= deny_write_cnt <= open_cnt holds of
\* every open inode and no assertion of inode_deny_write or inode_allow_write
\* fails.
C39_DenyBounded ==
  /\ \A e \in 1 .. Len(open_inodes) :
       /\ 0 <= open_inodes[e].deny_write_cnt
       /\ open_inodes[e].deny_write_cnt <= open_inodes[e].open_cnt
  /\ ilast.call \in {"inode_deny_write", "inode_allow_write"} => ~panicked

\* Two openers deny writes to one inode, or one of two has allowed them again.
C39_Witness ==
  /\ ilast.call = "inode_allow_write"
  /\ \E e \in 1 .. Len(open_inodes) :
       /\ open_inodes[e].sector = ilast.sector
       /\ open_inodes[e].open_cnt = 2
       /\ open_inodes[e].deny_write_cnt = 1
       /\ denying[ilast.sector] = 1

\* C40: after any sequence of create_fd and close calls of one process, a
\* create_fd that opened its file returns a descriptor that is at least 2 and
\* is none of the descriptors the process had open.
C40_FreshFd ==
  (fd_last.call = "create_fd" /\ fd_last.fd # 0 - 1) =>
    /\ fd_last.fd >= MIN_FD
    /\ fd_last.fd \notin fd_last.before

\* C33: an inode_write_at that extends an inode whose indirect block is partly
\* filled (more than D and fewer than D + C data sectors) stores the new child
\* pointers inside the indirect block: no cache_write_partial of the extension
\* runs past the end of the sector.
C33_PartlyFilled ==
  (/\ ilast.call = "inode_write_at"
   /\ bytes_to_data_sectors(ilast.image[0]) > INODE_NUM_DBLOCKS
   /\ bytes_to_data_sectors(ilast.image[0]) < INODE_NUM_DBLOCKS + INDBLOCK_NUM_CHILDREN
   /\ ilast.offset + ilast.size > ilast.image[0]) =>
    ~overrun

\* C31: for every inode on disk and every logical sector index s below
\* data_sectors (length), byte_to_sector returns a sector of the device that is
\* marked in the bitmap, is none of the sectors made by do_format, no inode
\* and no index block, and is returned for no other logical index of this
\* inode and for no logical index of another inode.
C31_DataSectors ==
  \A i \in Dev :
    hist[i].live =>
      \E ino \in {inode_get_data(sect, i)} :
      \E links \in {Links(sect, ino)} :
        \A s \in 0 .. (bytes_to_data_sectors(ino.length) - 1) :
          \E b \in {byte_to_sector(sect, ino, s * BLOCK_SECTOR_SIZE)} :
            /\ ~b.panic
            /\ b.sector \in Dev
            /\ free_map[b.sector]
            /\ b.sector \notin FormatSectors
            /\ ~hist[b.sector].live
            /\ \A k \in (bytes_to_data_sectors(ino.length) + 1) .. Len(links) :
                 links[k] # b.sector
            /\ \A t \in 0 .. (bytes_to_data_sectors(ino.length) - 1) :
                 t # s => byte_to_sector(sect, ino, t * BLOCK_SECTOR_SIZE).sector # b.sector
            /\ \A j \in Dev \ {i} :
                 hist[j].live =>
                   \A t \in 0 .. (bytes_to_data_sectors(inode_length(sect, j)) - 1) :
                     byte_to_sector(sect, inode_get_data(sect, j),
                                    t * BLOCK_SECTOR_SIZE).sector # b.sector

\* C36: the bytes an extension adds and no write has stored into read back
\* as zero.  After an inode_create every byte of the file, and after an
\* inode_write_at that extended the file every byte between the old end of
\* file and the offset of the write (the hole), is returned as 0 by
\* inode_read_at (inode, buf, 1, p).
C36_ZeroFill ==
  /\ (ilast.call = "inode_create" /\ ilast.alloc = "ok") =>
       \A p \in 0 .. (ilast.size - 1) :
         ReadLoop(sect, inode_get_data(sect, ilast.sector), ilast.sector, 1, p, <<>>)
           = [halt |-> "none", bytes |-> <<0>>]
  /\ (/\ ilast.call = "inode_write_at"
      /\ ilast.alloc = "ok"
      /\ ilast.offset + ilast.size > ilast.image[0]) =>
       \A p \in ilast.image[0] .. (ilast.offset - 1) :
         ReadLoop(sect, inode_get_data(sect, ilast.sector), ilast.sector, 1, p, <<>>)
           = [halt |-> "none", bytes |-> <<0>>]

====
